---- MODULE Spec2Model ----
(***************************************************************************)
(* PromQL evaluation core of query-api (src/src/promql/*.rs).              *)
(*                                                                         *)
(* f64 numbers are modelled as exact rationals <<n, d>> with d > 0 in      *)
(* lowest terms; NaN is <<0, 0>>.  Comparisons with NaN are false, as in   *)
(* IEEE 754.  Rounding error of f64 arithmetic is not modelled.            *)
(***************************************************************************)
EXTENDS Integers, Sequences, FiniteSets, TLC

VARIABLES
    gauge,       \* rows of otel_metrics_gauge, in TimeUnix order
    counter,     \* rows of otel_metrics_sum, in TimeUnix order
    failing,     \* the sub-stores ("gauge", "counter") whose fetch_all fails
    maybe_done,  \* tokio::join!: the output of each future, None while pending
    completed,   \* the futures in the order in which they completed
    call,        \* the operation in progress and its arguments
    pc,          \* control position of the operation
    t,           \* generate_steps: the loop variable t
    timestamps,  \* generate_steps: the vector being built / the step grid
    result       \* the value returned by the operation

vars == <<gauge, counter, failing, maybe_done, completed, call, pc, t, timestamps, result>>

-----------------------------------------------------------------------------
(* f64 as exact rationals *)

Abs(n) == IF n < 0 THEN -n ELSE n

RECURSIVE GCD(_, _)
GCD(a, b) == IF b = 0 THEN a ELSE GCD(b, a % b)

Rat(n, d) ==
    IF d = 0 THEN <<0, 0>>
    ELSE LET s == IF d < 0 THEN -1 ELSE 1
             g == GCD(Abs(n), Abs(d))
         IN  <<(s * n) \div g, (s * d) \div g>>

R(n) == <<n, 1>>
NaN == <<0, 0>>
PosInf == <<1, 0>>
NegInf == <<-1, 0>>
IsNaN(x) == x = <<0, 0>>
IsFinite(x) == x[2] # 0
Sign(n) == IF n > 0 THEN 1 ELSE IF n < 0 THEN -1 ELSE 0

\* finite operands are cross-reduced first so that intermediate products stay
\* small; an infinite operand follows IEEE 754 (signed zeros are not modelled)
RAdd(a, b) ==
    IF IsNaN(a) \/ IsNaN(b) THEN NaN
    ELSE IF ~IsFinite(a) /\ ~IsFinite(b) THEN (IF a = b THEN a ELSE NaN)
    ELSE IF ~IsFinite(a) THEN a
    ELSE IF ~IsFinite(b) THEN b
    ELSE LET g == GCD(a[2], b[2])
         IN  Rat(a[1] * (b[2] \div g) + b[1] * (a[2] \div g),
                 (a[2] \div g) * b[2])
RNeg(a) == <<-a[1], a[2]>>
RSub(a, b) == RAdd(a, RNeg(b))
RMul(a, b) ==
    IF IsNaN(a) \/ IsNaN(b) THEN NaN
    ELSE IF ~IsFinite(a) \/ ~IsFinite(b)
         THEN <<Sign(a[1]) * Sign(b[1]), 0>>
    ELSE LET g1 == GCD(Abs(a[1]), b[2])
             g2 == GCD(Abs(b[1]), a[2])
         IN  Rat((a[1] \div g1) * (b[1] \div g2),
                 (a[2] \div g2) * (b[2] \div g1))
RDiv(a, b) ==
    IF IsNaN(a) \/ IsNaN(b) THEN NaN
    ELSE IF ~IsFinite(b) THEN (IF IsFinite(a) THEN R(0) ELSE NaN)
    ELSE IF b[1] = 0 THEN <<Sign(a[1]), 0>>
    ELSE IF ~IsFinite(a) THEN <<Sign(a[1]) * Sign(b[1]), 0>>
    ELSE RMul(a, Rat(b[2], b[1]))

RLt(a, b) ==
    /\ ~IsNaN(a) /\ ~IsNaN(b)
    /\ IF IsFinite(a) /\ IsFinite(b)
       THEN LET g == GCD(a[2], b[2])
            IN  a[1] * (b[2] \div g) < b[1] * (a[2] \div g)
       ELSE (IF IsFinite(a) THEN 0 ELSE a[1]) < (IF IsFinite(b) THEN 0 ELSE b[1])
RLe(a, b) == ~IsNaN(a) /\ ~IsNaN(b) /\ (a = b \/ RLt(a, b))
RGt(a, b) == RLt(b, a)
RGe(a, b) == RLe(b, a)
REq(a, b) == ~IsNaN(a) /\ ~IsNaN(b) /\ a = b
RNe(a, b) == ~REq(a, b)
RAbs(a) == <<Abs(a[1]), a[2]>>

\* f64::min / f64::max: a NaN operand is ignored
RMin(a, b) == IF IsNaN(a) THEN b ELSE IF IsNaN(b) THEN a
              ELSE IF RLe(a, b) THEN a ELSE b
RMax(a, b) == IF IsNaN(a) THEN b ELSE IF IsNaN(b) THEN a
              ELSE IF RGe(a, b) THEN a ELSE b

\* f64::floor / f64::ceil of a finite value, as an integer
RFloor(a) == a[1] \div a[2]
RCeil(a) == -((-a[1]) \div a[2])

\* `x as i64`: truncation towards zero; NaN gives 0 and an infinity saturates
\* (at the widest integer of the model)
Trunc(a) ==
    IF IsNaN(a) THEN 0
    ELSE IF a = PosInf THEN 2147483647
    ELSE IF a = NegInf THEN -2147483647
    ELSE IF a[1] >= 0 THEN a[1] \div a[2] ELSE -((-a[1]) \div a[2])

\* the largest r in lo..hi with r * r <= n, by bisection
RECURSIVE ISqrtIn(_, _, _)
ISqrtIn(n, lo, hi) ==
    IF lo >= hi THEN lo
    ELSE LET mid == (lo + hi + 1) \div 2
         IN  IF mid * mid <= n THEN ISqrtIn(n, mid, hi)
             ELSE ISqrtIn(n, lo, mid - 1)

\* f64::sqrt: exact on squares of rationals, truncated to 1/100 otherwise
RSqrt(a) ==
    IF IsNaN(a) \/ a[1] < 0 THEN NaN
    ELSE IF ~IsFinite(a) THEN a
    ELSE LET ISqrt(n) == ISqrtIn(n, 0, IF n < 46340 THEN n ELSE 46340)
             rn == ISqrt(a[1])
             rd == ISqrt(a[2])
         IN  IF rn * rn = a[1] /\ rd * rd = a[2] THEN Rat(rn, rd)
             ELSE Rat(ISqrt((a[1] \div a[2]) * 10000
                            + ((a[1] % a[2]) * 10000) \div a[2]), 100)

\* Option<T>
None == <<>>
Some(v) == <<v>>
IsSome(o) == o # <<>>
Unwrap(o) == o[1]

\* a sample is <<timestamp_secs, value>>
Ts(s) == s[1]
Val(s) == s[2]

\* iter().sum() over a sequence of f64
RECURSIVE SumSeq(_)
SumSeq(xs) ==
    IF xs = <<>> THEN R(0)
    ELSE RAdd(SumSeq(SubSeq(xs, 1, Len(xs) - 1)), xs[Len(xs)])

Values(samples) == [i \in 1..Len(samples) |-> Val(samples[i])]
Times(samples) == [i \in 1..Len(samples) |-> Ts(samples[i])]

\* fold(init, f64::min) / fold(init, f64::max); reduce(f64::min) is the fold
\* of the tail from the first element
RECURSIVE FoldMin(_, _)
FoldMin(acc, xs) ==
    IF xs = <<>> THEN acc ELSE FoldMin(RMin(acc, xs[1]), Tail(xs))

RECURSIVE FoldMax(_, _)
FoldMax(acc, xs) ==
    IF xs = <<>> THEN acc ELSE FoldMax(RMax(acc, xs[1]), Tail(xs))

\* slice::sort_by(|a, b| a.0.partial_cmp(&b.0).unwrap_or(Equal)) on tuples
\* whose first component is the key: a stable insertion sort, ascending; an
\* incomparable pair (NaN) counts as equal
RECURSIVE InsertByKey(_, _)
InsertByKey(sorted, e) ==
    IF sorted = <<>> THEN <<e>>
    ELSE IF RLt(e[1], sorted[Len(sorted)][1])
         THEN Append(InsertByKey(SubSeq(sorted, 1, Len(sorted) - 1), e),
                     sorted[Len(sorted)])
         ELSE Append(sorted, e)

RECURSIVE SortByKey(_)
SortByKey(pairs) ==
    IF pairs = <<>> THEN <<>>
    ELSE InsertByKey(SortByKey(SubSeq(pairs, 1, Len(pairs) - 1)),
                     pairs[Len(pairs)])

\* values.sort_by(partial_cmp)
SortedValues(values) ==
    LET sorted == SortByKey([i \in 1..Len(values) |-> <<values[i]>>])
    IN  [i \in 1..Len(sorted) |-> sorted[i][1]]

-----------------------------------------------------------------------------
(* compute.rs: range functions over a window of samples *)

compute_rate_noreset(samples) ==
    IF Len(samples) < 2 THEN None
    ELSE LET dt == RSub(Ts(samples[Len(samples)]), Ts(samples[1]))
             delta == [i \in 1..(Len(samples) - 1) |->
                          RSub(Val(samples[i + 1]), Val(samples[i]))]
         IN  IF RLe(dt, R(0)) THEN None
             ELSE Some(RDiv(SumSeq(delta), dt))

compute_rate(samples) ==
    IF Len(samples) < 2 THEN None
    ELSE LET first == samples[1]
             last == samples[Len(samples)]
             dt == RSub(Ts(last), Ts(first))
             inc == [i \in 1..(Len(samples) - 1) |->
                        LET delta == RSub(Val(samples[i + 1]), Val(samples[i]))
                        IN  IF RGe(delta, R(0)) THEN delta
                            ELSE Val(samples[i + 1])]
             total_increase == SumSeq(inc)
         IN  IF RLe(dt, R(0)) THEN None
             ELSE Some(RDiv(total_increase, dt))

compute_irate(samples) ==
    IF Len(samples) < 2 THEN None
    ELSE LET prev == samples[Len(samples) - 1]
             last == samples[Len(samples)]
             dt == RSub(Ts(last), Ts(prev))
             delta == IF RGe(Val(last), Val(prev))
                      THEN RSub(Val(last), Val(prev))
                      ELSE Val(last)
         IN  IF RLe(dt, R(0)) THEN None ELSE Some(RDiv(delta, dt))

compute_increase(samples) ==
    LET rate == compute_rate(samples)
    IN  IF rate = None THEN None
        ELSE Some(RMul(Unwrap(rate),
                       RSub(Ts(samples[Len(samples)]), Ts(samples[1]))))

compute_sum_over_time(samples) ==
    IF samples = <<>> THEN None ELSE Some(SumSeq(Values(samples)))

compute_avg_over_time(samples) ==
    IF samples = <<>> THEN None
    ELSE Some(RDiv(SumSeq(Values(samples)), R(Len(samples))))

compute_min_over_time(samples) ==
    IF samples = <<>> THEN None ELSE Some(FoldMin(Val(samples[1]), Tail(Values(samples))))

compute_max_over_time(samples) ==
    IF samples = <<>> THEN None ELSE Some(FoldMax(Val(samples[1]), Tail(Values(samples))))

compute_count_over_time(samples) ==
    IF samples = <<>> THEN None ELSE Some(R(Len(samples)))

compute_stdvar_over_time(samples) ==
    IF samples = <<>> THEN None
    ELSE LET n == R(Len(samples))
             mean == RDiv(SumSeq(Values(samples)), n)
             sq == [i \in 1..Len(samples) |->
                       LET d == RSub(Val(samples[i]), mean) IN RMul(d, d)]
         IN  Some(RDiv(SumSeq(sq), n))

compute_stddev_over_time(samples) ==
    LET v == compute_stdvar_over_time(samples)
    IN  IF v = None THEN None ELSE Some(RSqrt(Unwrap(v)))

\* quantile_sorted without the interpolation between the two ranks
quantile_sorted_lower(sorted, q) ==
    IF sorted = <<>> THEN NaN
    ELSE IF Len(sorted) = 1 THEN sorted[1]
    ELSE LET qc == IF RLt(q, R(0)) THEN R(0)
                   ELSE IF RGt(q, R(1)) THEN R(1) ELSE q
             lower == RFloor(RMul(qc, R(Len(sorted) - 1)))
         IN  sorted[(IF lower < Len(sorted) - 1 THEN lower
                     ELSE Len(sorted) - 1) + 1]

\* qc is q.clamp(0.0, 1.0)
quantile_sorted(sorted, q) ==
    IF sorted = <<>> THEN NaN
    ELSE IF Len(sorted) = 1 THEN sorted[1]
    ELSE LET qc == IF RLt(q, R(0)) THEN R(0)
                   ELSE IF RGt(q, R(1)) THEN R(1) ELSE q
             rank == RMul(qc, R(Len(sorted) - 1))
             lower == RFloor(rank)
             upper == RCeil(rank)
             fraction == RSub(rank, R(lower))
         IN  IF lower = upper \/ lower + 1 >= Len(sorted)
             THEN sorted[(IF lower < Len(sorted) - 1 THEN lower
                          ELSE Len(sorted) - 1) + 1]
             ELSE RAdd(sorted[lower + 1],
                       RMul(RSub(sorted[upper + 1], sorted[lower + 1]), fraction))

compute_quantile_over_time(q, samples) ==
    IF samples = <<>> THEN None
    ELSE Some(quantile_sorted(
             SortedValues(Values(samples)), q))

compute_last_over_time(samples) ==
    IF samples = <<>> THEN None ELSE Some(Val(samples[Len(samples)]))

compute_first_over_time(samples) ==
    IF samples = <<>> THEN None ELSE Some(Val(samples[1]))

compute_delta_onesample(samples) ==
    IF samples = <<>> THEN None
    ELSE Some(RSub(Val(samples[Len(samples)]), Val(samples[1])))

compute_delta(samples) ==
    IF Len(samples) < 2 THEN None
    ELSE Some(RSub(Val(samples[Len(samples)]), Val(samples[1])))

compute_idelta_per_second(samples) ==
    IF Len(samples) < 2 THEN None
    ELSE Some(RDiv(RSub(Val(samples[Len(samples)]),
                        Val(samples[Len(samples) - 1])),
                   RSub(Ts(samples[Len(samples)]),
                        Ts(samples[Len(samples) - 1]))))

compute_idelta(samples) ==
    IF Len(samples) < 2 THEN None
    ELSE Some(RSub(Val(samples[Len(samples)]), Val(samples[Len(samples) - 1])))

\* denom.abs() < f64::EPSILON: every non-zero denominator the model can
\* produce is far above 2^-52, so the test is a test for zero
linear_regression_slope(samples) ==
    IF Len(samples) < 2 THEN None
    ELSE LET n == R(Len(samples))
             sum_x == SumSeq(Times(samples))
             sum_y == SumSeq(Values(samples))
             sum_xy == SumSeq([i \in 1..Len(samples) |->
                                 RMul(Ts(samples[i]), Val(samples[i]))])
             sum_x2 == SumSeq([i \in 1..Len(samples) |->
                                 RMul(Ts(samples[i]), Ts(samples[i]))])
             denom == RSub(RMul(n, sum_x2), RMul(sum_x, sum_x))
         IN  IF REq(denom, R(0)) THEN None
             ELSE Some(RDiv(RSub(RMul(n, sum_xy), RMul(sum_x, sum_y)), denom))

compute_deriv(samples) == linear_regression_slope(samples)

compute_predict_linear(samples, t_secs) ==
    IF Len(samples) < 2 THEN None
    ELSE LET slope == linear_regression_slope(samples)
             n == R(Len(samples))
             mean_x == RDiv(SumSeq(Times(samples)), n)
             mean_y == RDiv(SumSeq(Values(samples)), n)
             last_t == Ts(samples[Len(samples)])
         IN  IF slope = None THEN None
             ELSE LET intercept == RSub(mean_y, RMul(Unwrap(slope), mean_x))
                  IN  Some(RAdd(RMul(Unwrap(slope), RAdd(last_t, t_secs)),
                                intercept))

\* (w[1].1 - w[0].1).abs() > f64::EPSILON, a test for non-zero on model values
compute_changes(samples) ==
    IF samples = <<>> THEN None
    ELSE LET changed(a, b) == RNe(RSub(Val(b), Val(a)), R(0))
                              /\ ~IsNaN(RSub(Val(b), Val(a)))
             count == Cardinality({i \in 1..(Len(samples) - 1) :
                                      changed(samples[i], samples[i + 1])})
         IN  Some(R(count))

compute_resets(samples) ==
    IF samples = <<>> THEN None
    ELSE LET count == Cardinality({i \in 1..(Len(samples) - 1) :
                                      RLt(Val(samples[i + 1]), Val(samples[i]))})
         IN  Some(R(count))

compute_absent_over_time(samples) ==
    IF samples = <<>> THEN Some(R(1)) ELSE None

compute_present_over_time(samples) ==
    IF samples = <<>> THEN None ELSE Some(R(1))

RangeFuncs ==
    {"Rate", "Irate", "Increase", "SumOverTime", "AvgOverTime", "MinOverTime",
     "MaxOverTime", "CountOverTime", "StddevOverTime", "StdvarOverTime",
     "QuantileOverTime", "LastOverTime", "FirstOverTime", "Delta", "Idelta",
     "Deriv", "PredictLinear", "Changes", "Resets", "AbsentOverTime",
     "PresentOverTime"}

\* param is an Option<f64>
evaluate_range_func(func, samples, param) ==
    CASE func = "Rate" -> compute_rate(samples)
      [] func = "Irate" -> compute_irate(samples)
      [] func = "Increase" -> compute_increase(samples)
      [] func = "SumOverTime" -> compute_sum_over_time(samples)
      [] func = "AvgOverTime" -> compute_avg_over_time(samples)
      [] func = "MinOverTime" -> compute_min_over_time(samples)
      [] func = "MaxOverTime" -> compute_max_over_time(samples)
      [] func = "CountOverTime" -> compute_count_over_time(samples)
      [] func = "StddevOverTime" -> compute_stddev_over_time(samples)
      [] func = "StdvarOverTime" -> compute_stdvar_over_time(samples)
      [] func = "QuantileOverTime" ->
            compute_quantile_over_time(
                IF IsSome(param) THEN Unwrap(param) ELSE Rat(1, 2), samples)
      [] func = "LastOverTime" -> compute_last_over_time(samples)
      [] func = "FirstOverTime" -> compute_first_over_time(samples)
      [] func = "Delta" -> compute_delta(samples)
      [] func = "Idelta" -> compute_idelta(samples)
      [] func = "Deriv" -> compute_deriv(samples)
      [] func = "PredictLinear" ->
            compute_predict_linear(
                samples, IF IsSome(param) THEN Unwrap(param) ELSE R(0))
      [] func = "Changes" -> compute_changes(samples)
      [] func = "Resets" -> compute_resets(samples)
      [] func = "AbsentOverTime" -> compute_absent_over_time(samples)
      [] func = "PresentOverTime" -> compute_present_over_time(samples)

-----------------------------------------------------------------------------
(* types.rs: label sets and series *)

\* the strings of the model in String::cmp (byte) order
StrOrder ==
    <<"", "+Inf", "1", "2", "__name__", "a", "b", "c", "instance", "job", "le",
      "m", "n", "service_name">>

StrLess(x, y) ==
    LET rank(str) == CHOOSE i \in 1..Len(StrOrder) : StrOrder[i] = str
    IN  rank(x) < rank(y)

\* a BTreeMap<String, String> is the sequence of its <<key, value>> entries in
\* key order
EmptyLabels == <<>>
HasKey(labels, k) == \E i \in 1..Len(labels) : labels[i][1] = k
LGet(labels, k) ==
    IF HasKey(labels, k)
    THEN Some((CHOOSE e \in {labels[i] : i \in 1..Len(labels)} : e[1] = k)[2])
    ELSE None

LRemove(labels, k) ==
    LET keep(e) == e[1] # k IN SelectSeq(labels, keep)

\* BTreeMap::insert: replaces the value of an existing key
LInsert(labels, k, v) ==
    LET before(e) == StrLess(e[1], k)
        after(e) == StrLess(k, e[1])
    IN  SelectSeq(labels, before) \o << <<k, v>> >> \o SelectSeq(labels, after)

\* Ord for (String, String) and for BTreeMap<String, String>: lexicographic
RECURSIVE LabelsLess(_, _)
LabelsLess(x, y) ==
    IF y = <<>> THEN FALSE
    ELSE IF x = <<>> THEN TRUE
    ELSE IF x[1] = y[1] THEN LabelsLess(Tail(x), Tail(y))
    ELSE \/ StrLess(x[1][1], y[1][1])
         \/ x[1][1] = y[1][1] /\ StrLess(x[1][2], y[1][2])

\* the keys of a BTreeMap<BTreeMap<String, String>, _> in iteration order
RECURSIVE SortLabelSets(_)
SortLabelSets(keys) ==
    IF keys = {} THEN <<>>
    ELSE LET least == CHOOSE x \in keys :
                          \A y \in keys : x = y \/ LabelsLess(x, y)
         IN  <<least>> \o SortLabelSets(keys \ {least})

\* iterator filter_map(..).collect(): the Some entries, unwrapped, in order
RECURSIVE Compact(_)
Compact(opts) ==
    IF opts = <<>> THEN <<>>
    ELSE IF opts[1] = None THEN Compact(Tail(opts))
    ELSE <<Unwrap(opts[1])>> \o Compact(Tail(opts))

TimeSeries(labels, samples) == [labels |-> labels, samples |-> samples]

\* build_label_set: __name__, then service_name and the attributes when their
\* value is not empty
RECURSIVE InsertAttributes(_, _)
InsertAttributes(labels, attributes) ==
    IF attributes = <<>> THEN labels
    ELSE InsertAttributes(
             IF attributes[1][2] # ""
             THEN LInsert(labels, attributes[1][1], attributes[1][2])
             ELSE labels,
             Tail(attributes))

build_label_set(metric_name, service_name, attributes) ==
    LET named == << <<"__name__", metric_name>> >>
        withService == IF service_name # ""
                       THEN LInsert(named, "service_name", service_name)
                       ELSE named
    IN  InsertAttributes(withService, attributes)

\* each label set in BTreeMap order with its samples, sorted by timestamp
group_into_series(all_samples) ==
    LET keys == {all_samples[i][1] : i \in 1..Len(all_samples)}
        order == SortLabelSets(keys)
        of(k) == LET mine(e) == e[1] = k
                     rows == SelectSeq(all_samples, mine)
                 IN  [i \in 1..Len(rows) |-> <<rows[i][2], rows[i][3]>>]
    IN  [i \in 1..Len(order) |-> TimeSeries(order[i], SortByKey(of(order[i])))]

-----------------------------------------------------------------------------
(* eval.rs: the store query and step alignment *)

\* a stored row is [metric_name, service_name, attributes, ts_ms, value]; a
\* table is the sequence of its rows in TimeUnix order

\* sql.rs matchers_to_sql: the column a matcher tests; Attributes['k'] of a row
\* without the key is the empty string
MatcherColumn(row, name) ==
    IF name = "__name__" THEN row.metric_name
    ELSE IF name \in {"service_name", "job"} THEN row.service_name
    ELSE LET v == LGet(row.attributes, name)
         IN  IF v = None THEN "" ELSE Unwrap(v)

\* a matcher is [name, op, value] with op Equal or NotEqual
MatcherHolds(row, mt) ==
    IF mt.op = "Equal" THEN MatcherColumn(row, mt.name) = mt.value
    ELSE MatcherColumn(row, mt.name) # mt.value

\* the WHERE clause: TimeUnix between toDateTime64(start as i64) and
\* toDateTime64(end as i64), the metric name when given, and every matcher
WhereClause(row, vs, start_secs, end_secs) ==
    /\ row.ts_ms >= Trunc(start_secs) * 1000
    /\ row.ts_ms <= Trunc(end_secs) * 1000
    /\ vs.name # "" => row.metric_name = vs.name
    /\ \A i \in 1..Len(vs.matchers) : MatcherHolds(row, vs.matchers[i])

\* the last entry of a sequence of options that holds a value
LastSome(opts) ==
    IF \A i \in 1..Len(opts) : opts[i] = None THEN None
    ELSE opts[CHOOSE i \in 1..Len(opts) :
                  /\ opts[i] # None
                  /\ \A j \in (i + 1)..Len(opts) : opts[j] = None]

\* .map(|v| (t, v)) on an optional value
PointAt(step_t, v) == IF v = None THEN None ELSE Some(<<step_t, Unwrap(v)>>)

\* the latest sample with t - half_step <= st <= t + half_step
FindNearStep(samples, step_t, half_step) ==
    LastSome([i \in 1..Len(samples) |->
                 IF /\ RLe(Ts(samples[i]), RAdd(step_t, half_step))
                    /\ RGe(Ts(samples[i]), RSub(step_t, half_step))
                 THEN Some(Val(samples[i]))
                 ELSE None])

\* the tolerance of aggregate_series and sample_map
HalfStep(step_timestamps) ==
    IF Len(step_timestamps) >= 2
    THEN RDiv(RSub(step_timestamps[2], step_timestamps[1]), R(2))
    ELSE R(5)

step_align_series(series, step_timestamps, lookback) ==
    LET half_step == IF Len(step_timestamps) >= 2
                     THEN RDiv(RSub(step_timestamps[2], step_timestamps[1]), R(2))
                     ELSE RMax(lookback, R(5))
    IN  [i \in 1..Len(series) |->
            TimeSeries(series[i].labels,
                Compact([j \in 1..Len(step_timestamps) |->
                    PointAt(step_timestamps[j],
                            FindNearStep(series[i].samples, step_timestamps[j],
                                         half_step))]))]

\* Result<Vec<TimeSeries>, String>
Ok(series) == [ok |-> TRUE, series |-> series]
Err(message) == [ok |-> FALSE, err |-> message]

\* query_clickhouse returning the error of a failed fetch
query_clickhouse_abort(gaugeTable, sumTable, vs, start_secs, end_secs, step_timestamps, align) ==
    LET hit(row) == WhereClause(row, vs, start_secs, end_secs)
        rows == SelectSeq(gaugeTable, hit) \o SelectSeq(sumTable, hit)
        all_samples ==
            [i \in 1..Len(rows) |->
                <<build_label_set(rows[i].metric_name, rows[i].service_name,
                                  rows[i].attributes),
                  Rat(rows[i].ts_ms, 1000), rows[i].value>>]
        aligned(series) ==
            IF align
            THEN step_align_series(series, step_timestamps,
                                   RSub(end_secs, start_secs))
            ELSE series
    IN  IF failing # {} THEN Err("fetch failed")
        ELSE Ok(aligned(group_into_series(all_samples)))

\* one of the two SELECTs: the rows of a table the WHERE clause keeps, in
\* TimeUnix order, or the failure of the fetch
fetch_all(table, vs, start_secs, end_secs, failed) ==
    LET hit(row) == WhereClause(row, vs, start_secs, end_secs)
    IN  IF failed THEN None ELSE Some(SelectSeq(table, hit))

\* query_clickhouse with a row buffer that outlives the call
GroupFetchedKeepingRows(gauge_res, sum_res, start_secs, end_secs, step_timestamps, align) ==
    LET unwrap_or_default(res) == IF res = None THEN <<>> ELSE Unwrap(res)
        fetched == unwrap_or_default(gauge_res) \o unwrap_or_default(sum_res)
        rows == IF "earlier" \in DOMAIN call /\ call.earlier # <<>>
                THEN fetched \o fetched
                ELSE fetched
        all_samples ==
            [i \in 1..Len(rows) |->
                <<build_label_set(rows[i].metric_name, rows[i].service_name,
                                  rows[i].attributes),
                  Rat(rows[i].ts_ms, 1000), rows[i].value>>]
        aligned(series) ==
            IF align
            THEN step_align_series(series, step_timestamps,
                                   RSub(end_secs, start_secs))
            ELSE series
    IN  Ok(aligned(group_into_series(all_samples)))

\* query_clickhouse after the join of the two fetches: gauge rows chained with
\* sum rows, grouped, and step-aligned when asked; the rows of a fetch that
\* failed are unwrap_or_default(), the empty Vec
GroupFetched(gauge_res, sum_res, start_secs, end_secs, step_timestamps, align) ==
    LET unwrap_or_default(res) == IF res = None THEN <<>> ELSE Unwrap(res)
        rows == unwrap_or_default(gauge_res) \o unwrap_or_default(sum_res)
        all_samples ==
            [i \in 1..Len(rows) |->
                <<build_label_set(rows[i].metric_name, rows[i].service_name,
                                  rows[i].attributes),
                  Rat(rows[i].ts_ms, 1000), rows[i].value>>]
        aligned(series) ==
            IF align
            THEN step_align_series(series, step_timestamps,
                                   RSub(end_secs, start_secs))
            ELSE series
    IN  Ok(aligned(group_into_series(all_samples)))

query_clickhouse(gaugeTable, sumTable, vs, start_secs, end_secs, step_timestamps, align) ==
    GroupFetched(fetch_all(gaugeTable, vs, start_secs, end_secs, "gauge" \in failing),
                 fetch_all(sumTable, vs, start_secs, end_secs, "counter" \in failing),
                 start_secs, end_secs, step_timestamps, align)

evaluate_range_at_steps(raw_series, func, range_secs, step_timestamps, param) ==
    LET window(samples, st) ==
            LET inWindow(smp) == /\ RGe(Ts(smp), RSub(st, range_secs))
                                 /\ RLe(Ts(smp), st)
            IN  SelectSeq(samples, inWindow)
    IN  [i \in 1..Len(raw_series) |->
            TimeSeries(raw_series[i].labels,
                Compact([j \in 1..Len(step_timestamps) |->
                    PointAt(step_timestamps[j],
                        evaluate_range_func(func,
                            window(raw_series[i].samples, step_timestamps[j]),
                            param))]))]

-----------------------------------------------------------------------------
(* aggregate.rs *)

AggOps ==
    {"Sum", "Avg", "Min", "Max", "Count", "Stddev", "Stdvar", "Quantile",
     "Topk", "Bottomk", "Group", "CountValues"}

\* a group key that keeps every label
build_group_key_of_all(labels, by_labels, without) == labels

\* by_labels is a sequence of label names
build_group_key(labels, by_labels, without) ==
    LET listed(e) == \E i \in 1..Len(by_labels) : by_labels[i] = e[1]
        unlisted(e) == ~listed(e)
    IN  IF without THEN SelectSeq(labels, unlisted)
        ELSE IF by_labels = <<>> THEN EmptyLabels
        ELSE SelectSeq(labels, listed)

\* the members of one group, in input order
GroupMembers(series, key, by_labels, without) ==
    LET member(ts) == build_group_key(ts.labels, by_labels, without) = key
    IN  SelectSeq(series, member)

GroupKeys(series, by_labels, without) ==
    SortLabelSets({build_group_key(series[i].labels, by_labels, without) :
                      i \in 1..Len(series)})

\* the reduction of the non-empty values of one group at one step
AggregateValues(op, values, param) ==
    LET n == R(Len(values))
        mean == RDiv(SumSeq(values), n)
        var == RDiv(SumSeq([i \in 1..Len(values) |->
                               LET d == RSub(values[i], mean) IN RMul(d, d)]), n)
    IN  CASE op = "Sum" -> SumSeq(values)
          [] op = "Avg" -> mean
          [] op = "Min" -> FoldMin(PosInf, values)
          [] op = "Max" -> FoldMax(NegInf, values)
          [] op = "Count" -> n
          [] op = "Stddev" -> RSqrt(var)
          [] op = "Stdvar" -> var
          [] op = "Quantile" ->
                quantile_sorted(SortedValues(values),
                                IF IsSome(param) THEN Unwrap(param) ELSE Rat(1, 2))
          [] op = "Group" -> R(1)
          [] op = "CountValues" ->
                R(Cardinality({Trunc(RMul(values[i], R(1000000))) :
                                  i \in 1..Len(values)}))

\* members.sort_by(latest value): a stable sort, ascending; a series without
\* samples counts as 0.0 and an incomparable pair (NaN) as equal
LatestOrZero(ts) ==
    IF ts.samples = <<>> THEN R(0) ELSE Val(ts.samples[Len(ts.samples)])

SortByLatest(members) ==
    LET sorted == SortByKey([i \in 1..Len(members) |->
                                <<LatestOrZero(members[i]), members[i]>>])
    IN  [i \in 1..Len(sorted) |-> sorted[i][2]]

RECURSIVE Flatten(_)
Flatten(seqs) ==
    IF seqs = <<>> THEN <<>> ELSE seqs[1] \o Flatten(Tail(seqs))

\* k is `param.unwrap_or(5.0) as usize`: truncation, saturating at 0
aggregate_topk_bottomk(series, op, param, by_labels, without) ==
    LET truncated == Trunc(IF IsSome(param) THEN Unwrap(param) ELSE R(5))
        k == IF truncated < 0 THEN 0 ELSE truncated
        keys == GroupKeys(series, by_labels, without)
        Reverse(xs) == [i \in 1..Len(xs) |-> xs[Len(xs) + 1 - i]]
        Take(xs) == SubSeq(xs, 1, IF k < Len(xs) THEN k ELSE Len(xs))
        selected(key) ==
            LET members ==
                    SortByLatest(GroupMembers(series, key, by_labels, without))
            IN  IF op = "Topk" THEN Take(Reverse(members)) ELSE Take(members)
    IN  IF k = 0 THEN <<>>
        ELSE Flatten([i \in 1..Len(keys) |-> selected(keys[i])])

aggregate_series(series, op, by_labels, without, step_timestamps, param) ==
    IF op \in {"Topk", "Bottomk"}
    THEN aggregate_topk_bottomk(series, op, param, by_labels, without)
    ELSE
    LET keys == GroupKeys(series, by_labels, without)
        half_step == HalfStep(step_timestamps)
        reduced(key) ==
            LET members == GroupMembers(series, key, by_labels, without)
            IN  Compact([i \in 1..Len(step_timestamps) |->
                    LET values ==
                            Compact([j \in 1..Len(members) |->
                                FindNearStep(members[j].samples,
                                             step_timestamps[i], half_step)])
                    IN  IF values = <<>> THEN None
                        ELSE Some(<<step_timestamps[i],
                                    AggregateValues(op, values, param)>>)])
    IN  [i \in 1..Len(keys) |-> TimeSeries(keys[i], reduced(keys[i]))]

-----------------------------------------------------------------------------
(* binary.rs *)

ArithOps == {"+", "-", "*", "/", "%", "^"}
CompareOps == {"==", "!=", "<", ">", "<=", ">="}
SetOps == {"and", "or", "unless"}

\* a BinModifier is [card, extra, matching, labels, return_bool]; card is
\* OneToOne, ManyToOne, OneToMany or ManyToMany with the extra labels of
\* group_left / group_right; matching is None, Include (on) or Exclude
\* (ignoring) with its label list.  No modifier is NoModifier.
NoModifier ==
    [card |-> "OneToOne", extra |-> <<>>, matching |-> "None", labels |-> <<>>,
     return_bool |-> FALSE]

Contains(names, k) == \E i \in 1..Len(names) : names[i] = k

comparison_op_nofilter(cond, value, return_bool) ==
    IF return_bool THEN Some(IF cond THEN R(1) ELSE R(0))
    ELSE Some(value)

comparison_op(cond, value, return_bool) ==
    IF return_bool THEN Some(IF cond THEN R(1) ELSE R(0))
    ELSE IF cond THEN Some(value)
    ELSE None

\* f64 % : the remainder has the sign of the dividend
RRem(l, r) ==
    IF ~IsFinite(l) \/ IsNaN(r) THEN NaN
    ELSE IF ~IsFinite(r) THEN l
    ELSE RSub(l, RMul(r, R(Trunc(RDiv(l, r)))))

\* f64::powf, exact for an integral exponent (the exponents of the model)
RECURSIVE RPowInt(_, _)
RPowInt(l, n) == IF n = 0 THEN R(1) ELSE RMul(l, RPowInt(l, n - 1))

\* 1^y and x^0 are 1 even for NaN; an infinite exponent goes by |x| against 1
RPow(l, r) ==
    IF r = R(0) \/ l = R(1) THEN R(1)
    ELSE IF IsNaN(l) \/ IsNaN(r) THEN NaN
    ELSE IF ~IsFinite(r)
         THEN IF RAbs(l) = R(1) THEN R(1)
              ELSE IF RGt(RAbs(l), R(1)) = (r = PosInf) THEN PosInf ELSE R(0)
    ELSE IF r[2] # 1 THEN NaN
    ELSE IF r[1] >= 0 THEN RPowInt(l, r[1])
    ELSE RDiv(R(1), RPowInt(l, -r[1]))

eval_binary_op(op, l, r, return_bool) ==
    CASE op = "+" -> Some(RAdd(l, r))
      [] op = "-" -> Some(RSub(l, r))
      [] op = "*" -> Some(RMul(l, r))
      [] op = "/" -> IF r = R(0) THEN Some(NaN) ELSE Some(RDiv(l, r))
      [] op = "%" -> IF r = R(0) THEN Some(NaN) ELSE Some(RRem(l, r))
      [] op = "^" -> Some(RPow(l, r))
      [] op = "==" -> comparison_op(REq(l, r), l, return_bool)
      [] op = "!=" -> comparison_op(RNe(l, r), l, return_bool)
      [] op = "<" -> comparison_op(RLt(l, r), l, return_bool)
      [] op = ">" -> comparison_op(RGt(l, r), l, return_bool)
      [] op = "<=" -> comparison_op(RLe(l, r), l, return_bool)
      [] op = ">=" -> comparison_op(RGe(l, r), l, return_bool)
      [] OTHER -> None

\* (f * 1000.0) as i64
ordered_float(f) == Trunc(RMul(f, R(1000)))

\* sample_map(ts, step_timestamps).get(&ordered_float(at)): the value snapped
\* to the last step with that key, if the series has a sample near it
SampleMapGet(ts, step_timestamps, at) ==
    LastSome([i \in 1..Len(step_timestamps) |->
                 IF ordered_float(step_timestamps[i]) = ordered_float(at)
                 THEN FindNearStep(ts.samples, step_timestamps[i],
                                   HalfStep(step_timestamps))
                 ELSE None])

is_scalar_result(series) == Len(series) = 1 /\ series[1].labels = EmptyLabels

\* the points of one pairing: a value at each step where both sides have one
PairSamples(op, lts, rts, return_bool, step_timestamps) ==
    LET paired(at, l, r) ==
            IF l = None \/ r = None THEN None
            ELSE PointAt(at, eval_binary_op(op, Unwrap(l), Unwrap(r),
                                            return_bool))
    IN  Compact([i \in 1..Len(step_timestamps) |->
            paired(step_timestamps[i],
                   SampleMapGet(lts, step_timestamps, step_timestamps[i]),
                   SampleMapGet(rts, step_timestamps, step_timestamps[i]))])

apply_scalar_binary(op, lhs, rhs, return_bool, step_timestamps) ==
    <<TimeSeries(EmptyLabels,
                 PairSamples(op, lhs[1], rhs[1], return_bool, step_timestamps))>>

\* the scalar always taken as the right operand
apply_vector_scalar_on_rhs(op, vector, scalar, return_bool, scalar_on_lhs, step_timestamps) ==
    LET scalar_val(got) == IF got = None THEN NaN ELSE Unwrap(got)
        applied(smp) ==
            PointAt(Ts(smp),
                eval_binary_op(op, Val(smp),
                    scalar_val(SampleMapGet(scalar[1], step_timestamps,
                                            Ts(smp))),
                    return_bool))
        nonEmpty(ts) == ts.samples # <<>>
    IN  SelectSeq([i \in 1..Len(vector) |->
                      TimeSeries(vector[i].labels,
                          Compact([j \in 1..Len(vector[i].samples) |->
                              applied(vector[i].samples[j])]))],
                  nonEmpty)

apply_vector_scalar(op, vector, scalar, return_bool, scalar_on_lhs, step_timestamps) ==
    LET scalar_val(got) == IF got = None THEN NaN ELSE Unwrap(got)
        result_at(v, sc) ==
            IF scalar_on_lhs THEN eval_binary_op(op, sc, v, return_bool)
            ELSE eval_binary_op(op, v, sc, return_bool)
        applied(smp) ==
            PointAt(Ts(smp),
                result_at(Val(smp),
                    scalar_val(SampleMapGet(scalar[1], step_timestamps,
                                            Ts(smp)))))
        nonEmpty(ts) == ts.samples # <<>>
    IN  SelectSeq([i \in 1..Len(vector) |->
                      TimeSeries(vector[i].labels,
                          Compact([j \in 1..Len(vector[i].samples) |->
                              applied(vector[i].samples[j])]))],
                  nonEmpty)

\* a signature that keeps __name__ when no label list is given
match_signature_with_name(labels, match_labels, is_on) ==
    LET onLabel(e) == Contains(match_labels, e[1])
        notIgnored(e) == ~Contains(match_labels, e[1]) /\ e[1] # "__name__"
    IN  IF is_on THEN SelectSeq(labels, onLabel)
        ELSE IF match_labels # <<>> THEN SelectSeq(labels, notIgnored)
        ELSE labels

match_signature(labels, match_labels, is_on) ==
    LET onLabel(e) == Contains(match_labels, e[1])
        notIgnored(e) == ~Contains(match_labels, e[1]) /\ e[1] # "__name__"
        notName(e) == e[1] # "__name__"
    IN  IF is_on THEN SelectSeq(labels, onLabel)
        ELSE IF match_labels # <<>> THEN SelectSeq(labels, notIgnored)
        ELSE SelectSeq(labels, notName)

MatchLabels(modifier) ==
    IF modifier.matching = "None" THEN <<>> ELSE modifier.labels
IsOn(modifier) == modifier.matching = "Include"

\* labels.insert(extra, other[extra]) for each extra label the other side has
RECURSIVE CopyExtra(_, _, _)
CopyExtra(labels, other, extra) ==
    IF extra = <<>> THEN labels
    ELSE CopyExtra(
             IF HasKey(other, extra[1])
             THEN LInsert(labels, extra[1], Unwrap(LGet(other, extra[1])))
             ELSE labels,
             other, Tail(extra))

\* output labels that are the left series' labels under every cardinality
OutputLabelsOfLeft(lts, rts, modifier) == lts.labels

OutputLabels(lts, rts, modifier) ==
    LET match_labels == MatchLabels(modifier)
        onLabel(e) == Contains(match_labels, e[1])
        notListed(e) == ~Contains(match_labels, e[1])
    IN  CASE modifier.card = "OneToOne" ->
                 IF IsOn(modifier) THEN SelectSeq(lts.labels, onLabel)
                 ELSE IF match_labels # <<>> THEN SelectSeq(lts.labels, notListed)
                 ELSE lts.labels
          [] modifier.card = "ManyToOne" ->
                 CopyExtra(lts.labels, rts.labels, modifier.extra)
          [] modifier.card = "OneToMany" ->
                 CopyExtra(rts.labels, lts.labels, modifier.extra)
          [] OTHER -> lts.labels

apply_vector_vector(op, lhs, rhs, modifier, return_bool, step_timestamps) ==
    LET match_labels == MatchLabels(modifier)
        is_on == IsOn(modifier)
        sig(ts) == match_signature(ts.labels, match_labels, is_on)
        joined(labels, samples) ==
            IF samples = <<>> THEN None ELSE Some(TimeSeries(labels, samples))
    IN  Flatten([li \in 1..Len(lhs) |->
            Compact([ri \in 1..Len(rhs) |->
                IF sig(rhs[ri]) # sig(lhs[li]) THEN None
                ELSE joined(OutputLabels(lhs[li], rhs[ri], modifier),
                            PairSamples(op, lhs[li], rhs[ri], return_bool,
                                        step_timestamps))])])

apply_set_op_swapped(op, lhs, rhs, modifier) ==
    LET sig(ts) == match_signature(ts.labels, MatchLabels(modifier), IsOn(modifier))
        rhs_sigs == {sig(rhs[i]) : i \in 1..Len(rhs)}
        lhs_sigs == {sig(lhs[i]) : i \in 1..Len(lhs)}
        inRhs(ts) == sig(ts) \in rhs_sigs
        notInRhs(ts) == sig(ts) \notin rhs_sigs
        notInLhs(ts) == sig(ts) \notin lhs_sigs
    IN  CASE op = "and" -> SelectSeq(lhs, notInRhs)
          [] op = "unless" -> SelectSeq(lhs, inRhs)
          [] op = "or" -> lhs \o SelectSeq(rhs, notInLhs)
          [] OTHER -> <<>>

apply_set_op(op, lhs, rhs, modifier) ==
    LET sig(ts) == match_signature(ts.labels, MatchLabels(modifier), IsOn(modifier))
        rhs_sigs == {sig(rhs[i]) : i \in 1..Len(rhs)}
        lhs_sigs == {sig(lhs[i]) : i \in 1..Len(lhs)}
        inRhs(ts) == sig(ts) \in rhs_sigs
        notInRhs(ts) == sig(ts) \notin rhs_sigs
        notInLhs(ts) == sig(ts) \notin lhs_sigs
    IN  CASE op = "and" -> SelectSeq(lhs, inRhs)
          [] op = "unless" -> SelectSeq(lhs, notInRhs)
          [] op = "or" -> lhs \o SelectSeq(rhs, notInLhs)
          [] OTHER -> <<>>

apply_binary_op(op, lhs, rhs, modifier, step_timestamps) ==
    LET return_bool == modifier.return_bool
    IN  IF op \in SetOps THEN apply_set_op(op, lhs, rhs, modifier)
        ELSE IF is_scalar_result(lhs) /\ is_scalar_result(rhs)
             THEN apply_scalar_binary(op, lhs, rhs, return_bool, step_timestamps)
        ELSE IF is_scalar_result(rhs)
             THEN apply_vector_scalar(op, lhs, rhs, return_bool, FALSE,
                                      step_timestamps)
        ELSE IF is_scalar_result(lhs)
             THEN apply_vector_scalar(op, rhs, lhs, return_bool, TRUE,
                                      step_timestamps)
        ELSE apply_vector_vector(op, lhs, rhs, modifier, return_bool,
                                 step_timestamps)

-----------------------------------------------------------------------------
(* scalar.rs *)

\* exp, the logarithms and the trigonometric functions have no exact value
\* and are left out of the model

\* f64::round: half away from zero
RRound(v) ==
    IF ~IsFinite(v) THEN v
    ELSE IF v[1] >= 0 THEN R(RFloor(RAdd(v, Rat(1, 2))))
    ELSE RNeg(R(RFloor(RAdd(RNeg(v), Rat(1, 2)))))

\* exp, ln, the logarithms and the trigonometric functions have no exact
\* rational value and no query below calls them; clamp is given for
\* min <= max, see clamp_panics for the other bounds
apply_scalar_op(func, v, args) ==
    CASE func = "Abs" -> RAbs(v)
      [] func = "Ceil" -> IF IsFinite(v) THEN R(RCeil(v)) ELSE v
      [] func = "Floor" -> IF IsFinite(v) THEN R(RFloor(v)) ELSE v
      [] func = "Round" ->
            LET to == IF args # <<>> THEN args[1] ELSE R(1)
            IN  IF to = R(0) THEN v ELSE RMul(RRound(RDiv(v, to)), to)
      [] func = "Sqrt" -> RSqrt(v)
      [] func = "Sgn" -> IF RGt(v, R(0)) THEN R(1)
                         ELSE IF RLt(v, R(0)) THEN R(-1) ELSE R(0)
      [] func = "ClampMin" -> RMax(v, IF args # <<>> THEN args[1] ELSE NegInf)
      [] func = "ClampMax" -> RMin(v, IF args # <<>> THEN args[1] ELSE PosInf)
      [] func = "Clamp" ->
            LET min == IF args # <<>> THEN args[1] ELSE NegInf
                max == IF Len(args) >= 2 THEN args[2] ELSE PosInf
            IN  IF RLt(v, min) THEN min ELSE IF RGt(v, max) THEN max ELSE v
      [] OTHER -> v

\* f64::clamp asserts min <= max: it panics when min > max or a bound is NaN
clamp_panics(min, max) == ~RLe(min, max)

\* the call unwinds: apply_scalar_op(Clamp, ..) is reached with such bounds
apply_scalar_func_panics(series, func, extra_args) ==
    /\ func = "Clamp"
    /\ clamp_panics(IF extra_args # <<>> THEN extra_args[1] ELSE NegInf,
                    IF Len(extra_args) >= 2 THEN extra_args[2] ELSE PosInf)
    /\ \E i \in 1..Len(series) : series[i].samples # <<>>

\* le_str.parse::<f64>().unwrap_or(0.0), with "+Inf" as infinity
ParseLe(le_str) ==
    CASE le_str = "+Inf" -> PosInf
      [] le_str = "1" -> R(1)
      [] le_str = "2" -> R(2)
      [] OTHER -> R(0)

\* the loop stopping at the first bucket whose count exceeds the target
RECURSIVE InterpolateBucketsAbove(_, _, _, _)
InterpolateBucketsAbove(buckets, target, prev_le, prev_count) ==
    IF buckets = <<>> THEN NaN
    ELSE LET le == buckets[1][1]
             count == buckets[1][2]
             bucket_count == RSub(count, prev_count)
         IN  IF RGt(count, target)
             THEN IF RGt(bucket_count, R(0))
                  THEN RAdd(prev_le,
                            RMul(RSub(le, prev_le),
                                 RDiv(RSub(target, prev_count), bucket_count)))
                  ELSE prev_le
             ELSE InterpolateBucketsAbove(Tail(buckets), target, le, count)

\* the loop over the sorted buckets: the first bucket whose count reaches the
\* target, interpolated from the bucket before it
RECURSIVE InterpolateBuckets(_, _, _, _)
InterpolateBuckets(buckets, target, prev_le, prev_count) ==
    IF buckets = <<>> THEN NaN
    ELSE LET le == buckets[1][1]
             count == buckets[1][2]
             bucket_count == RSub(count, prev_count)
         IN  IF RGe(count, target)
             THEN IF RGt(bucket_count, R(0))
                  THEN RAdd(prev_le,
                            RMul(RSub(le, prev_le),
                                 RDiv(RSub(target, prev_count), bucket_count)))
                  ELSE prev_le
             ELSE InterpolateBuckets(Tail(buckets), target, le, count)

compute_histogram_quantile(phi, series) ==
    LET group_labels(ts) == LRemove(LRemove(ts.labels, "le"), "__name__")
        keys == SortLabelSets({group_labels(series[i]) : i \in 1..Len(series)})
        bucketOf(ts) ==
            LET le_str == IF HasKey(ts.labels, "le")
                          THEN Unwrap(LGet(ts.labels, "le")) ELSE ""
            IN  <<ParseLe(le_str), LatestOrZero(ts)>>
        bucketsOf(key) ==
            LET mine(ts) == group_labels(ts) = key
                members == SelectSeq(series, mine)
            IN  SortByKey([i \in 1..Len(members) |-> bucketOf(members[i])])
        eval_time == IF series # <<>> /\ series[1].samples # <<>>
                     THEN Ts(series[1].samples[Len(series[1].samples)])
                     ELSE R(0)
        quantileOf(key) ==
            LET buckets == bucketsOf(key)
                total == buckets[Len(buckets)][2]
            IN  IF total = R(0) THEN None
                ELSE Some(TimeSeries(key,
                         << <<eval_time,
                              InterpolateBuckets(buckets, RMul(phi, total),
                                                 R(0), R(0))>> >>))
    IN  Compact([i \in 1..Len(keys) |-> quantileOf(keys[i])])

apply_scalar_func(series, func, extra_args) ==
    IF func = "HistogramQuantile"
    THEN compute_histogram_quantile(
             IF extra_args # <<>> THEN extra_args[1] ELSE Rat(1, 2), series)
    ELSE [i \in 1..Len(series) |->
             TimeSeries(series[i].labels,
                 [j \in 1..Len(series[i].samples) |->
                     <<Ts(series[i].samples[j]),
                       apply_scalar_op(func, Val(series[i].samples[j]),
                                       extra_args)>>])]

-----------------------------------------------------------------------------
(* translate.rs and eval.rs: the recursive evaluator *)

\* An expression is a record with a kind:
\*   VectorSelector [name, matchers]      MatrixSelector [vs, range]
\*   Call [func, args]                    Aggregate [op, modifier, expr, param]
\*   Binary [op, lhs, rhs, modifier]      Unary [expr]      Paren [expr]
\*   NumberLiteral [val]                  StringLiteral, Subquery, Extension
\* An evaluation yields Ok(series) or Err(message).


to_range_func(name) ==
    CASE name = "rate" -> Some("Rate")
      [] name = "irate" -> Some("Irate")
      [] name = "increase" -> Some("Increase")
      [] name = "sum_over_time" -> Some("SumOverTime")
      [] name = "avg_over_time" -> Some("AvgOverTime")
      [] name = "min_over_time" -> Some("MinOverTime")
      [] name = "max_over_time" -> Some("MaxOverTime")
      [] name = "count_over_time" -> Some("CountOverTime")
      [] name = "stddev_over_time" -> Some("StddevOverTime")
      [] name = "stdvar_over_time" -> Some("StdvarOverTime")
      [] name = "quantile_over_time" -> Some("QuantileOverTime")
      [] name = "last_over_time" -> Some("LastOverTime")
      [] name = "delta" -> Some("Delta")
      [] name = "idelta" -> Some("Idelta")
      [] name = "deriv" -> Some("Deriv")
      [] name = "predict_linear" -> Some("PredictLinear")
      [] name = "changes" -> Some("Changes")
      [] name = "resets" -> Some("Resets")
      [] name = "absent_over_time" -> Some("AbsentOverTime")
      [] name = "present_over_time" -> Some("PresentOverTime")
      [] OTHER -> None

to_scalar_func(name) ==
    CASE name = "abs" -> Some("Abs")
      [] name = "ceil" -> Some("Ceil")
      [] name = "floor" -> Some("Floor")
      [] name = "round" -> Some("Round")
      [] name = "sqrt" -> Some("Sqrt")
      [] name = "exp" -> Some("Exp")
      [] name = "ln" -> Some("Ln")
      [] name = "log2" -> Some("Log2")
      [] name = "log10" -> Some("Log10")
      [] name = "sgn" -> Some("Sgn")
      [] name = "clamp_min" -> Some("ClampMin")
      [] name = "clamp_max" -> Some("ClampMax")
      [] name = "clamp" -> Some("Clamp")
      [] name = "histogram_quantile" -> Some("HistogramQuantile")
      [] name \in {"sin", "cos", "asin", "acos", "atan2", "sinh", "cosh",
                   "asinh", "acosh", "atanh", "deg", "rad", "pi"} -> Some(name)
      [] name = "timestamp" -> Some("Timestamp")
      [] OTHER -> None

\* the aggregation tokens of the parser
to_agg_op(tt) ==
    CASE tt = "sum" -> Some("Sum")
      [] tt = "avg" -> Some("Avg")
      [] tt = "min" -> Some("Min")
      [] tt = "max" -> Some("Max")
      [] tt = "count" -> Some("Count")
      [] tt = "stddev" -> Some("Stddev")
      [] tt = "stdvar" -> Some("Stdvar")
      [] tt = "quantile" -> Some("Quantile")
      [] tt = "topk" -> Some("Topk")
      [] tt = "bottomk" -> Some("Bottomk")
      [] tt = "group" -> Some("Group")
      [] tt = "count_values" -> Some("CountValues")
      [] OTHER -> None

\* a label modifier is [kind, labels] with kind None, Include (by) or Exclude
\* (without); the result is <<by_labels, without>>
extract_label_modifier(modifier) ==
    CASE modifier.kind = "Include" -> <<modifier.labels, FALSE>>
      [] modifier.kind = "Exclude" -> <<modifier.labels, TRUE>>
      [] OTHER -> <<<<>>, FALSE>>

RECURSIVE extract_number_literal(_)
extract_number_literal(expr) ==
    CASE expr.kind = "NumberLiteral" -> Some(expr.val)
      [] expr.kind = "Unary" ->
            LET v == extract_number_literal(expr.expr)
            IN  IF v = None THEN None ELSE Some(RNeg(Unwrap(v)))
      [] OTHER -> None

RECURSIVE extract_lookback(_)
extract_lookback(expr) ==
    CASE expr.kind = "MatrixSelector" -> expr.range
      [] expr.kind = "Call" ->
            FoldMax(R(0), [i \in 1..Len(expr.args) |->
                              extract_lookback(expr.args[i])])
      [] expr.kind = "Aggregate" -> extract_lookback(expr.expr)
      [] expr.kind = "Binary" ->
            RMax(extract_lookback(expr.lhs), extract_lookback(expr.rhs))
      [] expr.kind = "Unary" -> extract_lookback(expr.expr)
      [] expr.kind = "Paren" -> extract_lookback(expr.expr)
      [] OTHER -> R(300)

\* generate_steps as a value, for a step that makes the loop end
RECURSIVE generate_steps(_, _, _)
generate_steps(start, end, step) ==
    IF RLe(start, end)
    THEN <<start>> \o generate_steps(RAdd(start, step), end, step)
    ELSE <<>>

RECURSIVE evaluate(_, _, _, _)
RECURSIVE evaluate_range_call(_, _, _, _, _, _)
RECURSIVE evaluate_scalar_call(_, _, _, _, _, _)

evaluate(expr, query_start, query_end, step_timestamps) ==
    CASE expr.kind = "VectorSelector" ->
            query_clickhouse(gauge, counter, expr, query_start, query_end,
                             step_timestamps, TRUE)
      [] expr.kind = "MatrixSelector" ->
            query_clickhouse(gauge, counter, expr.vs,
                             RSub(query_start, expr.range), query_end,
                             step_timestamps, FALSE)
      [] expr.kind = "Call" ->
            IF to_range_func(expr.func) # None
            THEN evaluate_range_call(expr.args, Unwrap(to_range_func(expr.func)),
                     expr.func, query_start, query_end, step_timestamps)
            ELSE IF to_scalar_func(expr.func) # None
            THEN evaluate_scalar_call(expr.args,
                     Unwrap(to_scalar_func(expr.func)), expr.func, query_start,
                     query_end, step_timestamps)
            ELSE Err("unsupported function")
      [] expr.kind = "Aggregate" ->
            IF to_agg_op(expr.op) = None THEN Err("unsupported aggregation token")
            ELSE LET lm == extract_label_modifier(expr.modifier)
                     inner == evaluate(expr.expr, query_start, query_end,
                                       step_timestamps)
                     param == IF expr.param = None THEN None
                              ELSE extract_number_literal(Unwrap(expr.param))
                 IN  IF ~inner.ok THEN inner
                     ELSE Ok(aggregate_series(inner.series,
                                 Unwrap(to_agg_op(expr.op)), lm[1], lm[2],
                                 step_timestamps, param))
      [] expr.kind = "Binary" ->
            LET lhs == evaluate(expr.lhs, query_start, query_end, step_timestamps)
                rhs == evaluate(expr.rhs, query_start, query_end, step_timestamps)
            IN  IF ~lhs.ok THEN lhs
                ELSE IF ~rhs.ok THEN rhs
                ELSE Ok(apply_binary_op(expr.op, lhs.series, rhs.series,
                                        expr.modifier, step_timestamps))
      [] expr.kind = "Unary" ->
            LET inner == evaluate(expr.expr, query_start, query_end,
                                  step_timestamps)
                negated(ts) ==
                    TimeSeries(ts.labels,
                        [j \in 1..Len(ts.samples) |->
                            <<Ts(ts.samples[j]), RNeg(Val(ts.samples[j]))>>])
            IN  IF ~inner.ok THEN inner
                ELSE Ok([i \in 1..Len(inner.series) |->
                            negated(inner.series[i])])
      [] expr.kind = "Paren" ->
            evaluate(expr.expr, query_start, query_end, step_timestamps)
      [] expr.kind = "NumberLiteral" ->
            Ok(<<TimeSeries(EmptyLabels,
                    [i \in 1..Len(step_timestamps) |->
                        <<step_timestamps[i], expr.val>>])>>)
      [] expr.kind = "StringLiteral" ->
            Err("string literals are not supported in evaluation")
      [] expr.kind = "Subquery" -> Err("subqueries are not yet supported")
      [] OTHER -> Err("extension expressions are not supported")

evaluate_range_call(args, range_func, func_name, query_start, query_end, step_timestamps) ==
    LET numberAt(i) == IF i <= Len(args) THEN extract_number_literal(args[i])
                       ELSE None
        matrix_arg_idx == IF func_name = "quantile_over_time" THEN 2 ELSE 1
        param == IF func_name = "quantile_over_time" THEN numberAt(1)
                 ELSE IF func_name = "predict_linear" THEN numberAt(2)
                 ELSE None
    IN  IF matrix_arg_idx > Len(args)
        THEN Err("requires a matrix argument")
        ELSE LET matrix_arg == args[matrix_arg_idx]
                 range_secs == IF matrix_arg.kind = "MatrixSelector"
                               THEN matrix_arg.range ELSE R(300)
                 raw == evaluate(matrix_arg, RSub(query_start, range_secs),
                                 query_end, step_timestamps)
             IN  IF ~raw.ok THEN raw
                 ELSE Ok(evaluate_range_at_steps(raw.series, range_func,
                             range_secs, step_timestamps, param))

evaluate_scalar_call(args, scalar_func, func_name, query_start, query_end, step_timestamps) ==
    LET n == Len(args)
        NumberArg(i, default) ==
            LET v == extract_number_literal(args[i])
            IN  IF v = None THEN default ELSE Unwrap(v)
        bad == CASE func_name \in {"histogram_quantile", "clamp_min",
                                   "clamp_max"} -> n # 2
                 [] func_name = "clamp" -> n # 3
                 [] func_name = "round" -> n = 0 \/ n > 2
                 [] OTHER -> n = 0
    IN  IF bad THEN Err("wrong number of arguments")
        ELSE LET inner_expr == IF func_name = "histogram_quantile" THEN args[2]
                               ELSE args[1]
                 extra_args ==
                     CASE func_name = "histogram_quantile" ->
                              <<NumberArg(1, Rat(1, 2))>>
                       [] func_name \in {"clamp_min", "clamp_max"} ->
                              <<NumberArg(2, R(0))>>
                       [] func_name = "clamp" ->
                              <<NumberArg(2, R(0)), NumberArg(3, R(0))>>
                       [] func_name = "round" /\ n = 2 ->
                              <<NumberArg(2, R(1))>>
                       [] OTHER -> <<>>
                 inner == evaluate(inner_expr, query_start, query_end,
                                   step_timestamps)
             IN  IF ~inner.ok THEN inner
                 ELSE Ok(apply_scalar_func(inner.series, scalar_func,
                                           extra_args))

evaluate_instant_query(query, eval_time, lookback) ==
    evaluate(query, RSub(eval_time, lookback), eval_time, <<eval_time>>)

evaluate_range_query(query, start, end, step) ==
    evaluate(query, RSub(start, extract_lookback(query)), end,
             generate_steps(start, end, step))

-----------------------------------------------------------------------------
(* Range functions applied to bounded windows and to the test fixtures *)

MaxWin == 3

WinTimes == {R(10), R(20), R(30)}
WinValues == {R(-2), R(0), R(3), R(5)}

\* fn test_samples (the 12-point fixture)
test_samples ==
    << <<R(5), R(123)>>, <<R(15), R(34)>>, <<R(24), R(44)>>, <<R(36), R(21)>>,
       <<R(49), R(54)>>, <<R(60), R(34)>>, <<R(78), R(99)>>, <<R(80), R(12)>>,
       <<R(97), R(44)>>, <<R(115), R(32)>>, <<R(120), R(34)>>, <<R(130), R(34)>> >>

\* the window of test_counter_reset
counter_reset_samples ==
    << <<R(0), R(0)>>, <<R(10), R(5)>>, <<R(20), R(10)>>, <<R(30), R(3)>>,
       <<R(40), R(8)>> >>

\* the window of test_two_samples
two_samples == << <<R(10), R(100)>>, <<R(20), R(200)>> >>

\* the window of test_single_sample
single_sample == << <<R(10), R(42)>> >>

\* windows are cut from series sorted by timestamp (group_into_series); two
\* sub-stores may hold a sample each for one timestamp
Windows ==
    {w \in UNION {[1..n -> WinTimes \X WinValues] : n \in 0..MaxWin} :
        \A i \in 1..(Len(w) - 1) : RLe(Ts(w[i]), Ts(w[i + 1]))}
    \cup {test_samples, counter_reset_samples, two_samples, single_sample,
          [i \in 1..5 |-> <<R(i), R(i)>>]}

\* the q of quantile_over_time and the t of predict_linear
Params ==
    {None, Some(R(-1)), Some(R(0)), Some(Rat(1, 4)), Some(Rat(1, 2)),
     Some(Rat(3, 4)), Some(Rat(9, 10)), Some(R(1)), Some(R(5))}

InitCompute ==
    /\ gauge = <<>>
    /\ counter = <<>>
    /\ failing = {}
    /\ maybe_done = <<>>
    /\ completed = <<>>
    /\ call \in {[fn |-> "window", samples |-> w] : w \in Windows}
    /\ pc = "idle"
    /\ t = R(0)
    /\ timestamps = <<>>
    /\ result = None

EvaluateRangeFunc ==
    /\ pc = "idle"
    /\ call.fn = "window"
    /\ \E func \in RangeFuncs, param \in Params :
          /\ call' = [fn |-> "evaluate_range_func", func |-> func,
                      samples |-> call.samples, param |-> param]
          /\ result' = evaluate_range_func(func, call.samples, param)
    /\ pc' = "done"
    /\ UNCHANGED <<gauge, counter, failing, maybe_done, completed, t, timestamps>>

NextCompute == EvaluateRangeFunc

SpecCompute == InitCompute /\ [][NextCompute]_vars

-----------------------------------------------------------------------------
(* Properties of the range functions *)

CalledRangeFunc(func) ==
    pc = "done" /\ call.fn = "evaluate_range_func" /\ call.func = func

\* the sum over adjacent pairs of v[i] - v[i-1], or of v[i] after a reset
RECURSIVE TotalIncreaseFrom(_, _)
TotalIncreaseFrom(w, i) ==
    IF i > Len(w) THEN R(0)
    ELSE RAdd(IF RGe(RSub(Val(w[i]), Val(w[i - 1])), R(0))
              THEN RSub(Val(w[i]), Val(w[i - 1]))
              ELSE Val(w[i]),
              TotalIncreaseFrom(w, i + 1))

WindowDt(w) == RSub(Ts(w[Len(w)]), Ts(w[1]))

\* C1: with at least 2 samples and dt > 0, increase is the sum of the adjacent
\* increases (a drop counts as the new value) and rate is that sum over dt;
\* otherwise both return no value.  The counter-reset fixture has rate 18/40,
\* the 12-point fixture rate 2.2 and increase 275.
C1_RateIncrease ==
    /\ CalledRangeFunc("Rate") =>
          LET w == call.samples
          IN  /\ result = IF Len(w) >= 2 /\ RGt(WindowDt(w), R(0))
                          THEN Some(RDiv(TotalIncreaseFrom(w, 2), WindowDt(w)))
                          ELSE None
              /\ w = counter_reset_samples => result = Some(Rat(18, 40))
              /\ w = test_samples => result = Some(Rat(22, 10))
    /\ CalledRangeFunc("Increase") =>
          LET w == call.samples
          IN  /\ result = IF Len(w) >= 2 /\ RGt(WindowDt(w), R(0))
                          THEN Some(TotalIncreaseFrom(w, 2))
                          ELSE None
              /\ w = test_samples => result = Some(R(275))

C1_Witness ==
    /\ CalledRangeFunc("Rate")
    /\ call.samples = counter_reset_samples
    /\ result = Some(Rat(9, 20))

OneSampleNone ==
    {"Rate", "Irate", "Increase", "Delta", "Idelta", "Deriv", "PredictLinear"}
OneSampleOwnValue ==
    {"SumOverTime", "AvgOverTime", "MinOverTime", "MaxOverTime",
     "LastOverTime", "FirstOverTime"}

\* C9: an empty window yields no value for every range function except
\* absent_over_time, which yields 1; a one-sample window yields no value for
\* rate, irate, increase, delta, idelta, deriv and predict_linear, the sample's
\* value for sum/avg/min/max/last/first_over_time, 1 for count_over_time and 0
\* for changes and resets.
C9_EmptyAndSingleWindows ==
    (pc = "done" /\ call.fn = "evaluate_range_func") =>
        LET w == call.samples
            f == call.func
        IN  /\ (w = <<>> /\ f # "AbsentOverTime") => result = None
            /\ (w = <<>> /\ f = "AbsentOverTime") => result = Some(R(1))
            /\ (Len(w) = 1 /\ f \in OneSampleNone) => result = None
            /\ (Len(w) = 1 /\ f \in OneSampleOwnValue) => result = Some(Val(w[1]))
            /\ (Len(w) = 1 /\ f = "CountOverTime") => result = Some(R(1))
            /\ (Len(w) = 1 /\ f \in {"Changes", "Resets"}) => result = Some(R(0))

C9_Witness ==
    /\ CalledRangeFunc("Delta")
    /\ call.samples = single_sample
    /\ result = None

\* C10 as stated: on the window (10,100),(20,200) rate = 10, increase = 100 and
\* delta, idelta and deriv are each 10.
C10_Original ==
    (pc = "done" /\ call.fn = "evaluate_range_func" /\ call.samples = two_samples) =>
        /\ call.func = "Rate" => result = Some(R(10))
        /\ call.func = "Increase" => result = Some(R(100))
        /\ call.func \in {"Delta", "Idelta", "Deriv"} => result = Some(R(10))

\* C10 amended: on the window (10,100),(20,200) rate = 10, increase = 100,
\* deriv = 10, and delta and idelta are each 100.
C10_TwoSamples ==
    (pc = "done" /\ call.fn = "evaluate_range_func" /\ call.samples = two_samples) =>
        /\ call.func \in {"Rate", "Deriv"} => result = Some(R(10))
        /\ call.func \in {"Increase", "Delta", "Idelta"} => result = Some(R(100))

C10_Witness ==
    /\ CalledRangeFunc("Idelta")
    /\ call.samples = two_samples
    /\ result = Some(R(100))

-----------------------------------------------------------------------------
(* eval.rs: generate_steps, one loop iteration per step *)

MaxSteps == 14

StepStarts == {R(0), R(10)}
StepEnds == {R(0), R(10), R(25), R(30)}
StepSizes == {R(-5), R(0), Rat(5, 2), R(5), R(10), R(15)}

InitSteps ==
    /\ gauge = <<>>
    /\ counter = <<>>
    /\ failing = {}
    /\ maybe_done = <<>>
    /\ completed = <<>>
    /\ call \in {[fn |-> "generate_steps", start |-> s, end |-> e, step |-> d] :
                    s \in StepStarts, e \in StepEnds, d \in StepSizes}
    /\ pc = "while"
    /\ t = call.start
    /\ timestamps = <<>>
    /\ result = None

\* while t <= end { timestamps.push(t); t += step; }
GenerateStepsLoop ==
    /\ pc = "while"
    /\ RLe(t, call.end)
    /\ Len(timestamps) < MaxSteps
    /\ timestamps' = Append(timestamps, t)
    /\ t' = RAdd(t, call.step)
    /\ UNCHANGED <<gauge, counter, failing, maybe_done, completed, call, pc, result>>

GenerateStepsReturn ==
    /\ pc = "while"
    /\ ~RLe(t, call.end)
    /\ pc' = "done"
    /\ result' = timestamps
    /\ UNCHANGED <<gauge, counter, failing, maybe_done, completed, call, t, timestamps>>

NextSteps == GenerateStepsLoop \/ GenerateStepsReturn

SpecSteps == InitSteps /\ [][NextSteps]_vars

\* the grid points start + k*step (k >= 0) that are <= end, for step > 0
GridPoints(start, end, step) ==
    IF RLe(start, end)
    THEN [k \in 1..(RFloor(RDiv(RSub(end, start), step)) + 1) |->
             RAdd(start, RMul(R(k - 1), step))]
    ELSE <<>>

\* C5: generate_steps terminates for every start, end and step (each iteration
\* moves t strictly towards end) and returns exactly the ascending sequence of
\* the grid points start + k*step that are <= end, empty when start > end.
C5_GenerateStepsTerminates ==
    /\ [](pc = "done" =>
            result = IF RLe(call.start, call.end)
                     THEN GridPoints(call.start, call.end, call.step)
                     ELSE <<>>)
    /\ [][(pc = "while" /\ pc' = "while") => RGt(t', t)]_vars

-----------------------------------------------------------------------------
(* aggregate_series applied to bounded vectors *)

AggSampleLists ==
    {<<>>, <<<<R(10), R(100)>>>>, <<<<R(10), R(300)>>>>,
     <<<<R(10), R(100)>>, <<R(20), R(200)>>>>, <<<<R(10), NaN>>>>}

\* up to three series instance=a, b, c in that order; b may be of another job
AggVectors ==
    LET lab(inst, job) == <<<<"instance", inst>>, <<"job", job>>>>
        A == {TimeSeries(lab("a", "1"), x) : x \in AggSampleLists}
        B == {TimeSeries(lab("b", j), x) : j \in {"1", "2"}, x \in AggSampleLists}
        C == {TimeSeries(lab("c", "1"), x) : x \in AggSampleLists}
        \* fn test_aggregate_sum
        m == <<<<"__name__", "m">>>>
    IN  {<<>>} \cup {<<sa>> : sa \in A}
        \cup {<<TimeSeries(m, <<<<R(10), R(5)>>, <<R(20), R(10)>>>>),
                TimeSeries(m, <<<<R(10), R(3)>>, <<R(20), R(7)>>>>)>>}
        \cup {<<sa, sb>> : sa \in A, sb \in B}
        \cup {<<sa, sb, sc>> : sa \in A, sb \in B, sc \in C}

AggParams == {None, Some(R(-1)), Some(R(0)), Some(R(1)), Some(R(2)), Some(Rat(1, 2))}
AggSteps == {<<R(10)>>, <<R(10), R(20)>>}

InitAgg ==
    /\ gauge = <<>>
    /\ counter = <<>>
    /\ failing = {}
    /\ maybe_done = <<>>
    /\ completed = <<>>
    /\ call \in {[fn |-> "series", series |-> sv] : sv \in AggVectors}
    /\ pc = "idle"
    /\ t = R(0)
    /\ timestamps = <<>>
    /\ result = <<>>

AggregateSeries ==
    /\ pc = "idle"
    /\ \E op \in AggOps, by_labels \in {<<>>, <<"job">>}, without \in BOOLEAN,
          param \in AggParams, step_timestamps \in AggSteps :
          /\ call' = [fn |-> "aggregate_series", series |-> call.series,
                      op |-> op, by_labels |-> by_labels, without |-> without,
                      step_timestamps |-> step_timestamps, param |-> param]
          /\ result' = aggregate_series(call.series, op, by_labels, without,
                                        step_timestamps, param)
    /\ pc' = "done"
    /\ UNCHANGED <<gauge, counter, failing, maybe_done, completed, t, timestamps>>

NextAgg == AggregateSeries

SpecAgg == InitAgg /\ [][NextAgg]_vars

-----------------------------------------------------------------------------
(* apply_binary_op applied to bounded operands *)

BinSteps == {<<R(10)>>, <<R(10), R(20)>>}

BinOperands ==
    LET mA == <<<<"__name__", "m">>, <<"job", "a">>>>
        nA == <<<<"__name__", "n">>, <<"job", "a">>>>
        mB == <<<<"__name__", "m">>, <<"job", "b">>>>
    IN  {<<>>,
         <<TimeSeries(EmptyLabels, <<<<R(10), R(3)>>, <<R(20), R(3)>>>>)>>,
         <<TimeSeries(EmptyLabels, <<<<R(10), R(1)>>>>)>>,
         <<TimeSeries(EmptyLabels, <<<<R(10), NaN>>, <<R(20), R(0)>>>>)>>,
         <<TimeSeries(mA, <<<<R(10), R(1)>>, <<R(20), R(3)>>>>)>>,
         <<TimeSeries(mA, <<<<R(10), R(3)>>>>), TimeSeries(mB, <<<<R(20), R(1)>>>>)>>,
         <<TimeSeries(nA, <<<<R(10), R(3)>>, <<R(20), R(1)>>>>)>>,
         <<TimeSeries(nA, <<<<R(10), R(1)>>>>), TimeSeries(mB, <<<<R(10), R(5)>>, <<R(20), R(1)>>>>)>>,
         <<TimeSeries(mB, <<>>), TimeSeries(mA, <<<<R(20), R(-2)>>>>)>>,
         <<TimeSeries(mA, <<<<R(10), NaN>>, <<R(20), R(0)>>>>), TimeSeries(nA, <<<<R(10), R(5)>>>>)>>}

BinModifiers ==
    {[card |-> c[1], extra |-> c[2], matching |-> m[1], labels |-> m[2],
      return_bool |-> b] :
        c \in {<<"OneToOne", <<>> >>, <<"ManyToOne", <<"__name__">> >>,
               <<"OneToMany", <<"__name__", "job">> >>},
        m \in {<<"None", <<>> >>, <<"Include", <<"job">> >>,
               <<"Exclude", <<"job">> >>},
        b \in BOOLEAN}

InitBinary ==
    /\ gauge = <<>>
    /\ counter = <<>>
    /\ failing = {}
    /\ maybe_done = <<>>
    /\ completed = <<>>
    /\ call \in {[fn |-> "operands", lhs |-> l, rhs |-> r] :
                    l \in BinOperands, r \in BinOperands}
    /\ pc = "idle"
    /\ t = R(0)
    /\ timestamps = <<>>
    /\ result = <<>>

ApplyBinaryOp ==
    /\ pc = "idle"
    /\ \E op \in ArithOps \cup CompareOps \cup SetOps, modifier \in BinModifiers,
          step_timestamps \in BinSteps :
          /\ call' = [fn |-> "apply_binary_op", op |-> op, lhs |-> call.lhs,
                      rhs |-> call.rhs, modifier |-> modifier,
                      step_timestamps |-> step_timestamps]
          /\ result' = apply_binary_op(op, call.lhs, call.rhs, modifier,
                                       step_timestamps)
    /\ pc' = "done"
    /\ UNCHANGED <<gauge, counter, failing, maybe_done, completed, t, timestamps>>

NextBinary == ApplyBinaryOp

SpecBinary == InitBinary /\ [][NextBinary]_vars

-----------------------------------------------------------------------------
(* apply_scalar_func applied to bounded vectors *)

\* histogram buckets of job a with le = 1, 2, +Inf, in either order, with or
\* without a +Inf bucket of job b; and a vector that is not a histogram
ScalarVectors ==
    LET bucket(job, le) == <<<<"__name__", "m">>, <<"job", job>>, <<"le", le>>>>
        at10(c) == <<<<R(10), c>>>>
        A1 == {TimeSeries(bucket("a", "1"), at10(c)) : c \in {R(0), R(2)}}
        A2 == {TimeSeries(bucket("a", "2"), at10(c)) : c \in {R(2), R(3)}}
        AInf == {TimeSeries(bucket("a", "+Inf"), s) :
                    s \in {at10(R(0)), at10(R(3)),
                           <<<<R(10), R(1)>>, <<R(20), R(4)>>>>}}
        BInf == {TimeSeries(bucket("b", "+Inf"), at10(c)) : c \in {R(0), R(5)}}
        histograms ==
            {<<b1, b2, bInf>> : b1 \in A1, b2 \in A2, bInf \in AInf}
            \cup {<<bInf, b2, b1>> : b1 \in A1, b2 \in A2, bInf \in AInf}
            \cup {<<b1, b2>> : b1 \in A1, b2 \in A2}
    IN  histograms
        \cup {h \o <<other>> : h \in histograms, other \in BInf}
        \cup {<<>>,
              <<TimeSeries(<<<<"__name__", "m">>>>,
                           <<<<R(10), Rat(-5, 2)>>, <<R(20), NaN>>>>)>>}

\* a function with its extra_args
ScalarCalls ==
    {<<"HistogramQuantile", <<phi>>>> :
        phi \in {R(-1), R(0), Rat(1, 4), Rat(1, 2), R(1), R(2)}}
    \cup {<<"HistogramQuantile", <<>>>>, <<"Abs", <<>>>>, <<"Ceil", <<>>>>,
          <<"Floor", <<>>>>, <<"Sgn", <<>>>>, <<"Round", <<>>>>,
          <<"Round", <<R(0)>>>>, <<"Round", <<R(2)>>>>,
          <<"ClampMin", <<R(2)>>>>, <<"ClampMax", <<R(2)>>>>,
          <<"Clamp", <<R(1), R(3)>>>>, <<"Clamp", <<R(2), R(2)>>>>,
          <<"Clamp", <<R(3), R(1)>>>>, <<"Clamp", <<R(1)>>>>}

InitScalar ==
    /\ gauge = <<>>
    /\ counter = <<>>
    /\ failing = {}
    /\ maybe_done = <<>>
    /\ completed = <<>>
    /\ call \in {[fn |-> "series", series |-> sv] : sv \in ScalarVectors}
    /\ pc = "idle"
    /\ t = R(0)
    /\ timestamps = <<>>
    /\ result = <<>>

ApplyScalarFunc ==
    /\ pc = "idle"
    /\ \E c \in ScalarCalls :
          /\ call' = [fn |-> "apply_scalar_func", series |-> call.series,
                      func |-> c[1], extra_args |-> c[2]]
          /\ IF apply_scalar_func_panics(call.series, c[1], c[2])
             THEN pc' = "panicked" /\ UNCHANGED result
             ELSE /\ pc' = "done"
                  /\ result' = apply_scalar_func(call.series, c[1], c[2])
    /\ UNCHANGED <<gauge, counter, failing, maybe_done, completed, t, timestamps>>

NextScalar == ApplyScalarFunc

SpecScalar == InitScalar /\ [][NextScalar]_vars

\* the k-th smallest of a sequence of numbers, k in 1..Len(values)
KthSmallest(values, k) ==
    CHOOSE v \in {values[i] : i \in 1..Len(values)} :
        /\ Cardinality({i \in 1..Len(values) : RLt(values[i], v)}) < k
        /\ Cardinality({i \in 1..Len(values) : RLe(values[i], v)}) >= k

\* q clamped to [0, 1], times n - 1
QuantileRank(q, n) ==
    RMul(IF RLt(q, R(0)) THEN R(0) ELSE IF RGt(q, R(1)) THEN R(1) ELSE q,
         R(n - 1))

\* C11: quantile_over_time(q, window) over a non-empty window is, with the
\* values in ascending order and rank = clamp(q, 0, 1) * (n - 1), the value at
\* floor(rank) plus frac(rank) times the step to the value at ceil(rank); a
\* one-value window gives its value.  The 12-point fixture gives 34, 12, 123
\* and 94.5 for q = 0.5, 0, 1, 0.9; the values 1..5 give 2 and 4 for q = 0.25
\* and 0.75.
C11_Quantile ==
    (CalledRangeFunc("QuantileOverTime") /\ call.samples # <<>>
        /\ call.param # None) =>
        LET values == Values(call.samples)
            q == Unwrap(call.param)
            rank == QuantileRank(q, Len(values))
            lo == KthSmallest(values, RFloor(rank) + 1)
            hi == KthSmallest(values, RCeil(rank) + 1)
        IN  /\ result = Some(RAdd(lo, RMul(RSub(hi, lo),
                                           RSub(rank, R(RFloor(rank))))))
            /\ Len(values) = 1 => result = Some(values[1])
            /\ call.samples = test_samples =>
                   /\ q = Rat(1, 2) => result = Some(R(34))
                   /\ q = R(0) => result = Some(R(12))
                   /\ q = R(1) => result = Some(R(123))
                   /\ q = Rat(9, 10) => result = Some(Rat(189, 2))
            /\ values = <<R(1), R(2), R(3), R(4), R(5)>> =>
                   /\ q = Rat(1, 4) => result = Some(R(2))
                   /\ q = Rat(3, 4) => result = Some(R(4))

C11_Witness ==
    /\ CalledRangeFunc("QuantileOverTime")
    /\ call.samples = test_samples
    /\ call.param = Some(Rat(9, 10))
    /\ result = Some(Rat(189, 2))

-----------------------------------------------------------------------------
(* evaluate_instant_query and evaluate_range_query over bounded stores *)

Row(metric_name, service_name, attributes, ts_ms, value) ==
    [metric_name |-> metric_name, service_name |-> service_name,
     attributes |-> attributes, ts_ms |-> ts_ms, value |-> value]

\* the tables hold their rows in TimeUnix order
RECURSIVE SubSeqs(_)
SubSeqs(rows) ==
    IF rows = <<>> THEN {<<>>}
    ELSE LET rest == SubSeqs(Tail(rows))
         IN  rest \cup {<<rows[1]>> \o x : x \in rest}

GaugeTables ==
    SubSeqs(<<Row("m", "a", <<>>, 10000, R(1)),
              Row("m", "a", <<>>, 15000, R(3)),
              Row("m", "a", <<>>, 19200, R(2)),
              Row("m", "a", <<>>, 20200, R(5))>>)

SumTables ==
    {<<>>,
     <<Row("m", "b", <<>>, 20000, R(7))>>,
     <<Row("h", "", <<<<"le", "1">>>>, 10000, R(2)),
       Row("h", "", <<<<"le", "+Inf">>>>, 20000, R(4))>>,
     <<Row("h", "", <<<<"le", "1">>>>, 10000, R(2)),
       Row("h", "", <<<<"le", "+Inf">>>>, 10000, R(4)),
       Row("h", "", <<<<"le", "1">>>>, 20000, R(8)),
       Row("h", "", <<<<"le", "+Inf">>>>, 20000, R(8))>>}

Queries ==
    LET Selector(name) == [kind |-> "VectorSelector", name |-> name, matchers |-> <<>>]
        Matrix(name, range) ==
            [kind |-> "MatrixSelector", vs |-> Selector(name), range |-> range]
        Call(func, args) == [kind |-> "Call", func |-> func, args |-> args]
        Number(val) == [kind |-> "NumberLiteral", val |-> val]
        Aggregate(op, expr, param) ==
            [kind |-> "Aggregate", op |-> op, modifier |-> [kind |-> "None", labels |-> <<>>],
             expr |-> expr, param |-> param]
        Binary(op, lhs, rhs) ==
            [kind |-> "Binary", op |-> op, lhs |-> lhs, rhs |-> rhs,
             modifier |-> NoModifier]
    IN  {Selector("m"),
         [kind |-> "VectorSelector", name |-> "m",
          matchers |-> <<[name |-> "service_name", op |-> "Equal", value |-> "a"]>>],
         Matrix("m", R(10)),
         Call("rate", <<Matrix("m", R(10))>>),
         Call("last_over_time", <<Matrix("m", R(5))>>),
         Call("count_over_time", <<Matrix("m", R(10))>>),
         Call("absent_over_time", <<Matrix("m", R(5))>>),
         Call("present_over_time", <<Matrix("m", R(5))>>),
         Call("quantile_over_time", <<Number(Rat(1, 2)), Matrix("m", R(10))>>),
         Call("abs", <<Selector("m")>>),
         Call("histogram_quantile", <<Number(Rat(1, 2)), Selector("h")>>),
         Call("absent", <<Selector("m")>>),
         Aggregate("sum", Selector("m"), None),
         Aggregate("topk", Selector("m"), Some(Number(R(1)))),
         Binary(">", Selector("m"), Number(R(2))),
         Binary("+", Selector("m"), Selector("m")),
         [kind |-> "Unary", expr |-> Selector("m")],
         [kind |-> "Paren", expr |-> Selector("m")],
         Number(R(3)),
         [kind |-> "StringLiteral"],
         [kind |-> "Subquery"],
         [kind |-> "Extension"],
         Aggregate("topk", Selector("m"),
                   Some(Binary("+", Number(R(1)), Number(R(1))))),
         Aggregate("count_values", Selector("m"),
                   Some([kind |-> "StringLiteral"])),
         Aggregate("median", Selector("m"), None),
         Aggregate("sum", [kind |-> "Subquery"], None),
         Call("clamp", <<Selector("m"), Number(R(2)), Number(R(3))>>),
         Call("clamp_min", <<Selector("m")>>),
         Call("clamp_min", <<Selector("m"), Call("scalar", <<Selector("m")>>)>>),
         Call("round", <<>>),
         Call("histogram_quantile", <<Selector("h")>>),
         Call("quantile_over_time", <<Number(Rat(1, 2))>>),
         Call("predict_linear", <<Matrix("m", R(10))>>),
         Call("rate", <<>>),
         Call("rate", <<[kind |-> "Subquery"]>>),
         Call("abs", <<[kind |-> "Extension"]>>),
         Binary("+", Selector("m"), [kind |-> "StringLiteral"]),
         Binary("+", Call("scalar", <<Selector("m")>>), Selector("m")),
         [kind |-> "Unary", expr |-> [kind |-> "StringLiteral"]],
         [kind |-> "Paren", expr |-> [kind |-> "Subquery"]]}

EvalTimes == {R(20), Rat(41, 2)}
Lookbacks == {R(1), R(5), R(10)}
RangeStarts == {R(10)}
RangeEnds == {R(10), R(20), R(30)}
RangeSteps == {R(5), R(10)}

InitEval ==
    /\ gauge \in GaugeTables
    /\ counter \in SumTables
    /\ failing \in SUBSET {"gauge", "counter"}
    /\ maybe_done = <<>>
    /\ completed = <<>>
    /\ call = [fn |-> "none"]
    /\ pc = "idle"
    /\ t = R(0)
    /\ timestamps = <<>>
    /\ result = Ok(<<>>)

EvaluateInstantQuery ==
    /\ pc = "idle"
    /\ \E query \in Queries, eval_time \in EvalTimes, lookback \in Lookbacks :
          /\ call' = [fn |-> "evaluate_instant_query", query |-> query,
                      eval_time |-> eval_time, lookback |-> lookback]
          /\ result' = evaluate_instant_query(query, eval_time, lookback)
    /\ pc' = "done"
    /\ UNCHANGED <<gauge, counter, failing, maybe_done, completed, t, timestamps>>

\* for a step > 0; with any other step generate_steps does not return
EvaluateRangeQuery ==
    /\ pc = "idle"
    /\ \E query \in Queries, start \in RangeStarts, end \in RangeEnds,
          step \in RangeSteps :
          /\ RGt(step, R(0))
          /\ call' = [fn |-> "evaluate_range_query", query |-> query,
                      start |-> start, end |-> end, step |-> step]
          /\ result' = evaluate_range_query(query, start, end, step)
    /\ pc' = "done"
    /\ UNCHANGED <<gauge, counter, failing, maybe_done, completed, t, timestamps>>

NextEval == EvaluateInstantQuery \/ EvaluateRangeQuery

SpecEval == InitEval /\ [][NextEval]_vars

-----------------------------------------------------------------------------
(* Claims about instant and range queries *)

CalledInstant == pc = "done" /\ call.fn = "evaluate_instant_query"
CalledRange == pc = "done" /\ call.fn = "evaluate_range_query"

\* the stored rows a selector matches, whatever their time
MatchingRows(vs) ==
    LET rows == gauge \o counter
    IN  {rows[i] : i \in {j \in 1..Len(rows) :
            /\ vs.name # "" => rows[j].metric_name = vs.name
            /\ \A k \in 1..Len(vs.matchers) :
                   MatcherHolds(rows[j], vs.matchers[k])}}

RowLabels(row) ==
    build_label_set(row.metric_name, row.service_name, row.attributes)

\* the rows of one stored series whose time is in [T - L, T]
InLookback(vs, labels, eval_time, lookback) ==
    {row \in MatchingRows(vs) :
        /\ RowLabels(row) = labels
        /\ RGe(Rat(row.ts_ms, 1000), RSub(eval_time, lookback))
        /\ RLe(Rat(row.ts_ms, 1000), eval_time)}

LatestValues(rows) ==
    {row.value : row \in {x \in rows : \A y \in rows : y.ts_ms <= x.ts_ms}}

\* C2: an instant query of a plain vector selector at T with look-back L
\* yields, for every matching stored series with a sample in [T - L, T], the
\* single point (T, v) with v the value of the latest such sample; a sample
\* outside [T - L, T] is never the one reported (both fetches succeeding).
C2_InstantSelectorLatest ==
    (CalledInstant /\ call.query.kind = "VectorSelector" /\ failing = {}) =>
        /\ result.ok
        /\ \A row \in MatchingRows(call.query) :
               LET labels == RowLabels(row)
                   window == InLookback(call.query, labels, call.eval_time,
                                        call.lookback)
                   mine == {i \in 1..Len(result.series) :
                               result.series[i].labels = labels}
               IN  IF window # {}
                   THEN \E i \in mine :
                           /\ Len(result.series[i].samples) = 1
                           /\ Ts(result.series[i].samples[1]) = call.eval_time
                           /\ Val(result.series[i].samples[1])
                                  \in LatestValues(window)
                   ELSE \A i \in mine : result.series[i].samples = <<>>

Called == CalledInstant \/ CalledRange

\* a numeric literal, possibly negated
RECURSIVE NumericLiteral(_)
NumericLiteral(expr) ==
    \/ expr.kind = "NumberLiteral"
    \/ expr.kind = "Unary" /\ NumericLiteral(expr.expr)

SupportedFunction(name) ==
    to_range_func(name) # None \/ to_scalar_func(name) # None

\* the sub-expressions of a node: arguments, operands, inner expression and
\* aggregation parameter
Children(expr) ==
    CASE expr.kind = "Call" -> {expr.args[i] : i \in 1..Len(expr.args)}
      [] expr.kind = "Aggregate" ->
            {expr.expr} \cup (IF expr.param = None THEN {}
                              ELSE {Unwrap(expr.param)})
      [] expr.kind = "Binary" -> {expr.lhs, expr.rhs}
      [] expr.kind \in {"Unary", "Paren"} -> {expr.expr}
      [] OTHER -> {}

\* the node itself is one the evaluator does not implement
UnsupportedNode(expr) ==
    \/ expr.kind \in {"StringLiteral", "Subquery", "Extension"}
    \/ expr.kind = "Call" /\ ~SupportedFunction(expr.func)

\* an unsupported node anywhere in the tree
RECURSIVE ContainsUnsupported(_)
ContainsUnsupported(expr) ==
    \/ UnsupportedNode(expr)
    \/ \E child \in Children(expr) : ContainsUnsupported(child)

\* the sub-expressions of a node whose value the node is computed from: the
\* operands, the inner expression, the matrix or vector argument of a call
EvaluatedChildren(expr) ==
    CASE expr.kind = "Call" ->
            LET at == IF expr.func \in {"quantile_over_time",
                                        "histogram_quantile"} THEN 2 ELSE 1
            IN  IF at <= Len(expr.args) THEN {expr.args[at]} ELSE {}
      [] expr.kind = "Aggregate" -> {expr.expr}
      [] OTHER -> Children(expr)

\* wrong argument count, missing matrix argument or a numeric parameter that
\* is not a numeric literal
ArgumentError(expr) ==
    LET n == IF expr.kind = "Call" THEN Len(expr.args) ELSE 0
        num(i) == NumericLiteral(expr.args[i])
    IN  CASE expr.kind = "Call" /\ expr.func = "quantile_over_time" ->
                 n # 2 \/ ~num(1)
          [] expr.kind = "Call" /\ expr.func = "predict_linear" ->
                 n # 2 \/ ~num(2)
          [] expr.kind = "Call" /\ expr.func = "histogram_quantile" ->
                 n # 2 \/ ~num(1)
          [] expr.kind = "Call" /\ expr.func \in {"clamp_min", "clamp_max"} ->
                 n # 2 \/ ~num(2)
          [] expr.kind = "Call" /\ expr.func = "clamp" ->
                 n # 3 \/ ~num(2) \/ ~num(3)
          [] expr.kind = "Call" /\ expr.func = "round" ->
                 n \notin {1, 2} \/ (n = 2 /\ ~num(2))
          [] expr.kind = "Call" /\ SupportedFunction(expr.func) -> n = 0
          [] expr.kind = "Aggregate"
                 /\ expr.op \in {"quantile", "topk", "bottomk"} ->
                 expr.param = None \/ ~NumericLiteral(Unwrap(expr.param))
          [] OTHER -> FALSE

\* the argument errors the evaluator checks: the count of a scalar function's
\* arguments and the presence of a range function's matrix argument
CheckedArgumentError(expr) ==
    /\ expr.kind = "Call"
    /\ CASE to_range_func(expr.func) # None ->
                Len(expr.args)
                    < (IF expr.func = "quantile_over_time" THEN 2 ELSE 1)
         [] expr.func \in {"histogram_quantile", "clamp_min", "clamp_max"} ->
                Len(expr.args) # 2
         [] expr.func = "clamp" -> Len(expr.args) # 3
         [] expr.func = "round" -> Len(expr.args) \notin {1, 2}
         [] OTHER -> Len(expr.args) = 0

\* the expressions whose evaluation returns an error
RECURSIVE EvaluationFails(_)
EvaluationFails(expr) ==
    \/ UnsupportedNode(expr)
    \/ expr.kind = "Aggregate" /\ to_agg_op(expr.op) = None
    \/ CheckedArgumentError(expr)
    \/ \E child \in EvaluatedChildren(expr) : EvaluationFails(child)

\* the rows the fetches that succeed return for a selector and a time range
FetchedRows(vs, start_secs, end_secs) ==
    LET rows == (IF "gauge" \in failing THEN <<>> ELSE gauge)
                \o (IF "counter" \in failing THEN <<>> ELSE counter)
    IN  {rows[i] : i \in {j \in 1..Len(rows) :
            WhereClause(rows[j], vs, start_secs, end_secs)}}

\* when the fetch of one sub-store fails, an instant query of a selector
\* (plain or matrix) succeeds and its series are those of the rows the other
\* sub-store returns - for a matrix selector with exactly those rows as
\* samples; when both fail the result is empty, without error
SelectorSurvivesFailure ==
    (CalledInstant /\ failing # {}
        /\ call.query.kind \in {"VectorSelector", "MatrixSelector"}) =>
        LET matrix == call.query.kind = "MatrixSelector"
            vs == IF matrix THEN call.query.vs ELSE call.query
            start == IF matrix
                     THEN RSub(RSub(call.eval_time, call.lookback),
                               call.query.range)
                     ELSE RSub(call.eval_time, call.lookback)
            rows == FetchedRows(vs, start, call.eval_time)
            mine(labels) == {row \in rows : RowLabels(row) = labels}
        IN  /\ result.ok
            /\ {result.series[i].labels : i \in 1..Len(result.series)}
                   = {RowLabels(row) : row \in rows}
            /\ Len(result.series) = Cardinality({RowLabels(row) : row \in rows})
            /\ matrix =>
                   \A i \in 1..Len(result.series) :
                       LET samples == result.series[i].samples
                       IN  /\ {samples[j] : j \in 1..Len(samples)}
                                  = {<<Rat(row.ts_ms, 1000), row.value>> :
                                        row \in mine(result.series[i].labels)}
                           /\ Len(samples)
                                  = Cardinality(mine(result.series[i].labels))
            /\ failing = {"gauge", "counter"} => result.series = <<>>

\* C12: a selector whose gauge or counter fetch fails is resolved from the
\* rows of the other sub-store alone, the failed one counting as empty, and
\* from no rows when both fail; no failing fetch turns the evaluation of an
\* expression into an error.
C12_StoreFailure ==
    /\ SelectorSurvivesFailure
    /\ (Called /\ ~EvaluationFails(call.query)) => result.ok

C12_Witness ==
    /\ CalledInstant
    /\ failing = {"gauge"}
    /\ gauge # <<>>
    /\ call.query.kind = "MatrixSelector"
    /\ result.ok
    /\ Len(result.series) = 1
    /\ result.series[1].samples = << <<R(20), R(7)>> >>

C13_CheckedArgumentErrors ==
    (Called /\ CheckedArgumentError(call.query)) => ~result.ok

\* C14: an expression containing a string literal, a subquery, an extension
\* node or a call of an unsupported function anywhere in its tree evaluates
\* to an error.
C14_UnsupportedAnywhere ==
    (Called /\ ContainsUnsupported(call.query)) => ~result.ok

\* C14 for the positions the evaluator evaluates: the result is an error
\* exactly when a node on such a position fails
C14_ErrorsPropagate == Called => (result.ok = ~EvaluationFails(call.query))

\* the step grid of the query
StepsOfCall ==
    IF call.fn = "evaluate_instant_query" THEN <<call.eval_time>>
    ELSE generate_steps(call.start, call.end, call.step)

\* a range function applied to a matrix selector
RangeOverMatrix(query) ==
    /\ query.kind = "Call"
    /\ to_range_func(query.func) # None
    /\ query.args # <<>>
    /\ query.args[Len(query.args)].kind = "MatrixSelector"

\* the stored samples of one series with at - range <= timestamp <= at, in
\* ascending timestamp order
WindowSamples(vs, labels, at, range) ==
    LET inWindow(row) ==
            /\ row \in MatchingRows(vs)
            /\ RowLabels(row) = labels
            /\ RGe(Rat(row.ts_ms, 1000), RSub(at, range))
            /\ RLe(Rat(row.ts_ms, 1000), at)
        rows == SelectSeq(gauge \o counter, inWindow)
    IN  SortByKey([i \in 1..Len(rows) |->
                      <<Rat(rows[i].ts_ms, 1000), rows[i].value>>])

\* the value of the range function of query over that window (the selector
\* is the last argument; q of quantile_over_time is the first)
WindowValue(query, labels, at) ==
    evaluate_range_func(Unwrap(to_range_func(query.func)),
        WindowSamples(query.args[Len(query.args)].vs, labels, at,
                      query.args[Len(query.args)].range),
        IF query.func = "quantile_over_time"
        THEN extract_number_literal(query.args[1])
        ELSE None)

\* the result holds the value for a series at a step, or no point when there
\* is no value
ResultHas(labels, at, value) ==
    IF value = None
    THEN \A i \in 1..Len(result.series) :
            result.series[i].labels = labels =>
                \A j \in 1..Len(result.series[i].samples) :
                    Ts(result.series[i].samples[j]) # at
    ELSE \E i \in 1..Len(result.series) :
            /\ result.series[i].labels = labels
            /\ \E j \in 1..Len(result.series[i].samples) :
                   result.series[i].samples[j] = <<at, Unwrap(value)>>

WindowsComputed ==
    \A row \in MatchingRows(call.query.args[Len(call.query.args)].vs) :
        \A j \in 1..Len(StepsOfCall) :
            ResultHas(RowLabels(row), StepsOfCall[j],
                      WindowValue(call.query, RowLabels(row), StepsOfCall[j]))

\* C17: for a range function over a matrix selector of range r, the value of
\* a series at each step t is the function's value over exactly the stored
\* samples of the series with t - r <= timestamp <= t in ascending order: no
\* stored sample of the window is missing and none outside contributes (both
\* fetches succeeding).
C17_RangeWindow ==
    (Called /\ failing = {} /\ RangeOverMatrix(call.query) /\ result.ok) =>
        WindowsComputed

\* C17 for an instant query at a whole second and for range queries (whose
\* start, end and step are whole seconds), for the functions that have no
\* value on an empty window
C17_RangeWindowWholeSeconds ==
    (/\ Called
     /\ failing = {}
     /\ RangeOverMatrix(call.query)
     /\ call.query.func # "absent_over_time"
     /\ result.ok
     /\ call.fn = "evaluate_instant_query" => call.eval_time[2] = 1) =>
        WindowsComputed

\* the stored samples of the selector, of whatever series, with
\* at - range <= timestamp <= at
SelectorWindow(matrix, at) ==
    {row \in MatchingRows(matrix.vs) :
        /\ RGe(Rat(row.ts_ms, 1000), RSub(at, matrix.range))
        /\ RLe(Rat(row.ts_ms, 1000), at)}

\* the result has the value 1 at a step / has no point at a step
OneAt(at) ==
    \E i \in 1..Len(result.series) :
        \E j \in 1..Len(result.series[i].samples) :
            result.series[i].samples[j] = <<at, R(1)>>
NothingAt(at) ==
    \A i \in 1..Len(result.series) :
        \A j \in 1..Len(result.series[i].samples) :
            Ts(result.series[i].samples[j]) # at

CalledOverTime(func) ==
    /\ Called
    /\ failing = {}
    /\ call.query.kind = "Call"
    /\ call.query.func = func
    /\ RangeOverMatrix(call.query)

\* C23: absent_over_time(m[r]) is 1 at every step whose window [t - r, t]
\* holds no stored sample of the selector - be it that a matching series has
\* none there or that no series matches - and has no point at a step whose
\* window holds one; present_over_time(m[r]) is 1 at exactly the steps whose
\* window holds a sample (both fetches succeeding).
C23_AbsentPresent ==
    /\ CalledOverTime("absent_over_time") =>
          \A j \in 1..Len(StepsOfCall) :
              IF SelectorWindow(call.query.args[1], StepsOfCall[j]) = {}
              THEN OneAt(StepsOfCall[j])
              ELSE NothingAt(StepsOfCall[j])
    /\ CalledOverTime("present_over_time") =>
          \A j \in 1..Len(StepsOfCall) :
              IF SelectorWindow(call.query.args[1], StepsOfCall[j]) = {}
              THEN NothingAt(StepsOfCall[j])
              ELSE OneAt(StepsOfCall[j])

\* the present_over_time half, at whole seconds
C23_PresentWholeSeconds ==
    (/\ CalledOverTime("present_over_time")
     /\ call.fn = "evaluate_instant_query" => call.eval_time[2] = 1) =>
          \A j \in 1..Len(StepsOfCall) :
              IF SelectorWindow(call.query.args[1], StepsOfCall[j]) = {}
              THEN NothingAt(StepsOfCall[j])
              ELSE OneAt(StepsOfCall[j])

\* what absent_over_time does, at whole seconds: each series that was fetched
\* has the value 1 at the steps whose window holds none of its own samples,
\* and a selector of which nothing was fetched has no output
C23_AbsentPerFetchedSeries ==
    (/\ CalledOverTime("absent_over_time")
     /\ call.fn = "evaluate_instant_query" => call.eval_time[2] = 1) =>
        /\ \A i \in 1..Len(result.series) :
               \A j \in 1..Len(StepsOfCall) :
                   ResultHas(result.series[i].labels, StepsOfCall[j],
                       IF WindowSamples(call.query.args[1].vs,
                              result.series[i].labels, StepsOfCall[j],
                              call.query.args[1].range) = <<>>
                       THEN Some(R(1)) ELSE None)
        /\ MatchingRows(call.query.args[1].vs) = {} => result.series = <<>>

\* the result has, for a series at a step, a point with one of the values, or
\* no point when there is none
ResultHasOneOf(labels, at, values) ==
    IF values = {}
    THEN ResultHas(labels, at, None)
    ELSE \E v \in values : ResultHas(labels, at, Some(v))

\* the rows of one stored series that the query fetched (TimeUnix <= end) with
\* a time in [at - tol, at + tol]
AroundStep(vs, labels, at, tol) ==
    {row \in MatchingRows(vs) :
        /\ RowLabels(row) = labels
        /\ RLe(Rat(row.ts_ms, 1000), call.end)
        /\ RGe(Rat(row.ts_ms, 1000), RSub(at, tol))
        /\ RLe(Rat(row.ts_ms, 1000), RAdd(at, tol))}

\* C18: in a range query of a plain selector the point of a series at step t
\* has the value of its most recent sample with t - tol <= timestamp <= t,
\* tol being half the step when the grid has two steps or more and 5 seconds
\* otherwise; the series has no point at t when there is no such sample, and
\* a sample later than t is not reported at t (both fetches succeeding).
C18_RangeSelectorAlign ==
    (CalledRange /\ failing = {} /\ call.query.kind = "VectorSelector") =>
        /\ result.ok
        /\ \A row \in MatchingRows(call.query) :
               \A j \in 1..Len(StepsOfCall) :
                   ResultHasOneOf(RowLabels(row), StepsOfCall[j],
                       LatestValues(InLookback(call.query, RowLabels(row),
                           StepsOfCall[j],
                           IF Len(StepsOfCall) >= 2
                           THEN RDiv(call.step, R(2)) ELSE R(5))))

\* what step_align_series does instead: the most recent fetched sample with
\* t - tol <= timestamp <= t + tol, tol being half the step for two steps or
\* more and otherwise the length of the fetch window (at least 5 seconds)
C18_SymmetricWindow ==
    (CalledRange /\ failing = {} /\ call.query.kind = "VectorSelector") =>
        /\ result.ok
        /\ \A row \in MatchingRows(call.query) :
               \A j \in 1..Len(StepsOfCall) :
                   ResultHasOneOf(RowLabels(row), StepsOfCall[j],
                       LatestValues(AroundStep(call.query, RowLabels(row),
                           StepsOfCall[j],
                           IF Len(StepsOfCall) >= 2
                           THEN RDiv(call.step, R(2))
                           ELSE RMax(R(5), RAdd(RSub(call.end, call.start),
                                                R(300))))))

\* C3: every series of an instant query's result carries exactly one sample,
\* at eval_time; no returned series has an empty sample list.
C3_InstantOneSample ==
    (CalledInstant /\ result.ok) =>
        \A i \in 1..Len(result.series) :
            /\ Len(result.series[i].samples) = 1
            /\ Ts(result.series[i].samples[1]) = call.eval_time

\* C4: every series of a range query's result, whatever the expression, has
\* its samples in strictly ascending timestamp order, each timestamp a point
\* start + k*step of the step grid in [start, end].
C4_RangeOnGrid ==
    (CalledRange /\ result.ok) =>
        LET grid == generate_steps(call.start, call.end, call.step)
        IN  \A i \in 1..Len(result.series) :
                LET samples == result.series[i].samples
                IN  /\ \A j \in 1..Len(samples) :
                           \E k \in 1..Len(grid) : Ts(samples[j]) = grid[k]
                    /\ \A j \in 1..(Len(samples) - 1) :
                           RLt(Ts(samples[j]), Ts(samples[j + 1]))

-----------------------------------------------------------------------------
(* Claims about topk / bottomk *)

CalledTopk ==
    /\ pc = "done"
    /\ call.fn = "aggregate_series"
    /\ call.op \in {"Topk", "Bottomk"}

SeriesSet(series) == {series[i] : i \in 1..Len(series)}
HasSamples(ts) == ts.samples # <<>>
LatestValue(ts) == Val(ts.samples[Len(ts.samples)])
MinOf(a, b) == IF a < b THEN a ELSE b

\* a series whose latest value is a number
Ranked(ts) == HasSamples(ts) /\ ~IsNaN(LatestValue(ts))

\* the selection of one group is right: min(k, size) members, and no member
\* left out ranks strictly before a returned one (among the series whose
\* latest value is a number: NaN is not ordered against anything)
GroupSelected(key, k) ==
    LET members == SeriesSet(GroupMembers(call.series, key, call.by_labels,
                                          call.without))
        returned == SeriesSet(result) \cap members
    IN  /\ Cardinality(returned) = MinOf(k, Cardinality(members))
        /\ \A r \in returned, n \in members \ returned :
               (Ranked(r) /\ Ranked(n)) =>
                   IF call.op = "Topk"
                   THEN RGe(LatestValue(r), LatestValue(n))
                   ELSE RLe(LatestValue(r), LatestValue(n))

\* C6: topk(k) / bottomk(k) with k >= 1 return, per group, exactly
\* min(k, group size) of the group's input series, unmodified, the latest
\* value of every returned series being >= (topk) / <= (bottomk) the latest
\* value of every series of the group that is not returned; k <= 0 yields an
\* empty result.
C6_TopkBottomk ==
    (CalledTopk /\ IsSome(call.param) /\ Unwrap(call.param)[2] = 1) =>
        LET k == Unwrap(call.param)[1]
        IN  IF k <= 0 THEN result = <<>>
            ELSE /\ SeriesSet(result) \subseteq SeriesSet(call.series)
                 /\ Cardinality(SeriesSet(result)) = Len(result)
                 /\ \A i \in 1..Len(call.series) :
                        GroupSelected(build_group_key(call.series[i].labels,
                                          call.by_labels, call.without), k)

\* the latest values of a call's input series, none of them NaN
AllLatestComparable ==
    \A i \in 1..Len(call.series) :
        HasSamples(call.series[i]) => Ranked(call.series[i])

\* C6 with every latest value a number: the selection is right
C6_TopkBottomkNumbers ==
    (CalledTopk /\ AllLatestComparable) => C6_TopkBottomk

C6_Witness ==
    /\ CalledTopk
    /\ call.op = "Topk"
    /\ call.param = Some(R(2))
    /\ call.by_labels = <<>> /\ ~call.without
    /\ Len(call.series) = 3
    /\ [i \in 1..3 |-> call.series[i].samples] =
           <<  <<<<R(10), R(100)>>>>, <<<<R(10), R(300)>>>>,
               <<<<R(10), R(100)>>, <<R(20), R(200)>>>>  >>
    /\ SeriesSet(result) = {call.series[2], call.series[3]}

-----------------------------------------------------------------------------
(* Claims about comparison and set operators *)

CalledBinary == pc = "done" /\ call.fn = "apply_binary_op"

ComparisonHolds(op, l, r) ==
    CASE op = "==" -> REq(l, r)
      [] op = "!=" -> RNe(l, r)
      [] op = "<" -> RLt(l, r)
      [] op = ">" -> RGt(l, r)
      [] op = "<=" -> RLe(l, r)
      [] op = ">=" -> RGe(l, r)

\* what a comparison of l with r at time at contributes to the result
ExpectedPoint(op, at, l, r, return_bool) ==
    IF return_bool
    THEN Some(<<at, IF ComparisonHolds(op, l, r) THEN R(1) ELSE R(0)>>)
    ELSE IF ComparisonHolds(op, l, r) THEN Some(<<at, l>>)
    ELSE None

\* the operand pairs <<at, l, r>> an operation evaluates, in result order; a
\* scalar without a value at a point of the vector enters as NaN
ScalarAt(scalar, step_timestamps, at) ==
    LET got == SampleMapGet(scalar[1], step_timestamps, at)
    IN  IF got = None THEN NaN ELSE Unwrap(got)

StepPairs(lts, rts, step_timestamps) ==
    Compact([i \in 1..Len(step_timestamps) |->
        LET at == step_timestamps[i]
            l == SampleMapGet(lts, step_timestamps, at)
            r == SampleMapGet(rts, step_timestamps, at)
        IN  IF l = None \/ r = None THEN None
            ELSE Some(<<at, Unwrap(l), Unwrap(r)>>)])

OperandPairs(lhs, rhs, modifier, step_timestamps) ==
    IF is_scalar_result(lhs) /\ is_scalar_result(rhs)
    THEN StepPairs(lhs[1], rhs[1], step_timestamps)
    ELSE IF is_scalar_result(rhs)
    THEN Flatten([i \in 1..Len(lhs) |->
             [j \in 1..Len(lhs[i].samples) |->
                 LET at == Ts(lhs[i].samples[j])
                 IN  <<at, Val(lhs[i].samples[j]),
                       ScalarAt(rhs, step_timestamps, at)>>]])
    ELSE IF is_scalar_result(lhs)
    THEN Flatten([i \in 1..Len(rhs) |->
             [j \in 1..Len(rhs[i].samples) |->
                 LET at == Ts(rhs[i].samples[j])
                 IN  <<at, ScalarAt(lhs, step_timestamps, at),
                       Val(rhs[i].samples[j])>>]])
    ELSE Flatten([i \in 1..Len(lhs) |->
             Flatten([j \in 1..Len(rhs) |->
                 IF match_signature(lhs[i].labels, MatchLabels(modifier),
                                    IsOn(modifier))
                    = match_signature(rhs[j].labels, MatchLabels(modifier),
                                      IsOn(modifier))
                 THEN StepPairs(lhs[i], rhs[j], step_timestamps)
                 ELSE <<>>])])

AllSamples(series) == Flatten([i \in 1..Len(series) |-> series[i].samples])

\* C7: a comparison operator with the bool modifier yields 1.0 where the
\* comparison holds and 0.0 where it does not; without it a point where the
\* comparison does not hold is absent and a point where it holds carries the
\* left operand's value, in scalar-scalar, vector-scalar (either order) and
\* vector-vector operations.
C7_ComparisonOperators ==
    (CalledBinary /\ call.op \in CompareOps) =>
        LET pairs == OperandPairs(call.lhs, call.rhs, call.modifier,
                                  call.step_timestamps)
        IN  AllSamples(result) =
                Compact([i \in 1..Len(pairs) |->
                    ExpectedPoint(call.op, pairs[i][1], pairs[i][2], pairs[i][3],
                                  call.modifier.return_bool)])

\* a filtering comparison with the scalar on the left drops one point of the
\* vector and keeps another, which carries the scalar's value
C7_Witness ==
    /\ CalledBinary
    /\ call.op = ">"
    /\ ~call.modifier.return_bool
    /\ is_scalar_result(call.lhs) /\ ~is_scalar_result(call.rhs)
    /\ Len(call.rhs) = 1 /\ Len(call.rhs[1].samples) = 2
    /\ Len(result) = 1
    /\ result[1].samples = <<<<R(10), R(3)>>>>
    /\ call.rhs[1].samples[1] = <<R(10), R(1)>>

Signature(ts) ==
    match_signature(ts.labels, MatchLabels(call.modifier), IsOn(call.modifier))

Signatures(series) == {Signature(series[i]) : i \in 1..Len(series)}

\* C8: `and` returns exactly the left series whose signature occurs among the
\* right series' signatures, `unless` exactly those whose signature does not,
\* `or` every left series plus exactly the right series whose signature occurs
\* among no left series' signatures; every returned series is unmodified and
\* the bool flag does not affect the result.
C8_SetOperators ==
    (CalledBinary /\ call.op \in SetOps) =>
        LET inRight(ts) == Signature(ts) \in Signatures(call.rhs)
            notInRight(ts) == Signature(ts) \notin Signatures(call.rhs)
            notInLeft(ts) == Signature(ts) \notin Signatures(call.lhs)
            flipped == [call.modifier EXCEPT !.return_bool = ~@]
        IN  /\ call.op = "and" => result = SelectSeq(call.lhs, inRight)
            /\ call.op = "unless" => result = SelectSeq(call.lhs, notInRight)
            /\ call.op = "or" =>
                   result = call.lhs \o SelectSeq(call.rhs, notInLeft)
            /\ result = apply_binary_op(call.op, call.lhs, call.rhs, flipped,
                                        call.step_timestamps)

\* `and` on (job) keeps one of two left series and drops the other
C8_Witness ==
    /\ CalledBinary
    /\ call.op = "and"
    /\ call.modifier.matching = "Include"
    /\ Len(call.lhs) = 2
    /\ Len(call.rhs) = 1
    /\ result = <<call.lhs[1]>>
    /\ call.rhs[1].labels # call.lhs[1].labels


-----------------------------------------------------------------------------
(* evaluate with the futures of its tokio::join! calls completing one by one *)

JoinGaugeTables ==
    SubSeqs(<<Row("m", "a", <<>>, 10000, R(1)),
              Row("m", "a", <<>>, 20000, R(3))>>)

JoinSumTables ==
    SubSeqs(<<Row("m", "a", <<>>, 20000, R(7)),
              Row("m", "b", <<>>, 20000, R(5))>>)

JoinQueries ==
    LET Selector(name) == [kind |-> "VectorSelector", name |-> name, matchers |-> <<>>]
        OfService(service) ==
            [kind |-> "VectorSelector", name |-> "m",
             matchers |-> <<[name |-> "service_name", op |-> "Equal",
                             value |-> service]>>]
        Binary(op, lhs, rhs) ==
            [kind |-> "Binary", op |-> op, lhs |-> lhs, rhs |-> rhs,
             modifier |-> NoModifier]
    IN  {Selector("m"),
         [kind |-> "MatrixSelector", vs |-> Selector("m"), range |-> R(10)],
         Binary("-", Selector("m"), OfService("a")),
         Binary("-", OfService("a"), Selector("m")),
         Binary("+", Selector("m"), [kind |-> "NumberLiteral", val |-> R(2)]),
         Binary("+", [kind |-> "StringLiteral"], Selector("m")),
         Binary("+", [kind |-> "Subquery"], [kind |-> "StringLiteral"]),
         [kind |-> "Call", func |-> "rate",
          args |-> <<[kind |-> "MatrixSelector", vs |-> Selector("m"),
                      range |-> R(10)]>>],
         [kind |-> "Aggregate", op |-> "sum",
          modifier |-> [kind |-> "None", labels |-> <<>>],
          expr |-> Selector("m"), param |-> None]}

\* the number of times one evaluation is run
MaxCalls == 2

IsSelector(expr) == expr.kind \in {"VectorSelector", "MatrixSelector"}

\* the sub-evaluations evaluate awaits: the two sides of a Binary node, or the
\* one selector
SubExprs(query) ==
    IF query.kind = "Binary" THEN [lhs |-> query.lhs, rhs |-> query.rhs]
    ELSE [top |-> query]

\* the futures of an evaluation: one per sub-evaluation, and the gauge and
\* the sum fetch of each selector
Futures(query) ==
    LET subs == SubExprs(query)
    IN  {<<side>> : side \in DOMAIN subs}
        \cup {<<side, table>> : side \in {x \in DOMAIN subs : IsSelector(subs[x])},
                                table \in {"gauge", "sum"}}

FetchesOf(query, side) ==
    IF IsSelector(SubExprs(query)[side])
    THEN {<<side, "gauge">>, <<side, "sum">>}
    ELSE {}

\* the outputs of a selector's two fetches, first completed first
FetchOutputsAsCompleted(side) ==
    LET mine(f) == Len(f) = 2 /\ f[1] = side
        order == SelectSeq(completed, mine)
    IN  <<Unwrap(maybe_done[order[1]]), Unwrap(maybe_done[order[2]])>>

\* (gauge_res, sum_res) of tokio::join!: the outputs in the order of the
\* macro's arguments
FetchOutputs(side) ==
    <<Unwrap(maybe_done[<<side, "gauge">>]), Unwrap(maybe_done[<<side, "sum">>])>>

InitJoin ==
    /\ gauge \in JoinGaugeTables
    /\ counter \in JoinSumTables
    /\ failing \in SUBSET {"gauge", "counter"}
    /\ maybe_done = <<>>
    /\ completed = <<>>
    /\ call = [fn |-> "none"]
    /\ pc = "idle"
    /\ t = R(0)
    /\ timestamps = <<>>
    /\ result = Ok(<<>>)

\* evaluate is entered; every future it will join is pending
EvaluateEnter ==
    /\ pc = "idle"
    /\ \E query \in JoinQueries, lookback \in {R(1), R(10)} :
          call' = [fn |-> "evaluate", query |-> query,
                   query_start |-> RSub(R(20), lookback), query_end |-> R(20),
                   step_timestamps |-> <<R(20)>>, earlier |-> <<>>]
    /\ maybe_done' = [f \in Futures(call'.query) |-> None]
    /\ completed' = <<>>
    /\ pc' = "join"
    /\ UNCHANGED <<gauge, counter, failing, t, timestamps, result>>

\* one of the pending SELECTs returns its rows, or fails
FetchAllCompletes ==
    /\ pc = "join"
    /\ \E f \in {x \in DOMAIN maybe_done : Len(x) = 2 /\ maybe_done[x] = None} :
          LET sub == SubExprs(call.query)[f[1]]
              vs == IF sub.kind = "MatrixSelector" THEN sub.vs ELSE sub
              start_secs == IF sub.kind = "MatrixSelector"
                            THEN RSub(call.query_start, sub.range)
                            ELSE call.query_start
              rows == IF f[2] = "gauge"
                      THEN fetch_all(gauge, vs, start_secs, call.query_end,
                                     "gauge" \in failing)
                      ELSE fetch_all(counter, vs, start_secs, call.query_end,
                                     "counter" \in failing)
          IN  /\ maybe_done' = [maybe_done EXCEPT ![f] = Some(rows)]
              /\ completed' = Append(completed, f)
    /\ UNCHANGED <<gauge, counter, failing, call, pc, t, timestamps, result>>

\* a sub-evaluation completes: a selector once both of its fetches are joined,
\* any other expression without a fetch
SubEvaluationCompletes ==
    /\ pc = "join"
    /\ \E side \in DOMAIN SubExprs(call.query) :
          /\ maybe_done[<<side>>] = None
          /\ \A f \in FetchesOf(call.query, side) : maybe_done[f] # None
          /\ LET sub == SubExprs(call.query)[side]
                 out == IF sub.kind = "VectorSelector"
                        THEN GroupFetched(FetchOutputs(side)[1],
                                 FetchOutputs(side)[2],
                                 call.query_start, call.query_end,
                                 call.step_timestamps, TRUE)
                        ELSE IF sub.kind = "MatrixSelector"
                        THEN GroupFetched(FetchOutputs(side)[1],
                                 FetchOutputs(side)[2],
                                 RSub(call.query_start, sub.range),
                                 call.query_end, call.step_timestamps, FALSE)
                        ELSE evaluate(sub, call.query_start, call.query_end,
                                      call.step_timestamps)
             IN  /\ maybe_done' = [maybe_done EXCEPT ![<<side>>] = Some(out)]
                 /\ completed' = Append(completed, <<side>>)
    /\ UNCHANGED <<gauge, counter, failing, call, pc, t, timestamps, result>>

\* the join resolves when no future is pending: lhs_result?, rhs_result?,
\* then apply_binary_op
EvaluateReturn ==
    /\ pc = "join"
    /\ \A f \in DOMAIN maybe_done : maybe_done[f] # None
    /\ result' =
          IF call.query.kind = "Binary"
          THEN LET lhs == Unwrap(maybe_done[<<"lhs">>])
                   rhs == Unwrap(maybe_done[<<"rhs">>])
               IN  IF ~lhs.ok THEN lhs
                   ELSE IF ~rhs.ok THEN rhs
                   ELSE Ok(apply_binary_op(call.query.op, lhs.series,
                               rhs.series, call.query.modifier,
                               call.step_timestamps))
          ELSE Unwrap(maybe_done[<<"top">>])
    /\ pc' = "done"
    /\ UNCHANGED <<gauge, counter, failing, maybe_done, completed, call, t, timestamps>>

\* the same expression is evaluated again with the same window, on the same
\* store; call.earlier keeps what the calls before returned
EvaluateAgain ==
    /\ pc = "done"
    /\ Len(call.earlier) + 1 < MaxCalls
    /\ call' = [call EXCEPT !.earlier = Append(@, result)]
    /\ maybe_done' = [f \in Futures(call.query) |-> None]
    /\ completed' = <<>>
    /\ pc' = "join"
    /\ UNCHANGED <<gauge, counter, failing, t, timestamps, result>>

NextJoin ==
    \/ EvaluateEnter
    \/ FetchAllCompletes
    \/ SubEvaluationCompletes
    \/ EvaluateReturn
    \/ EvaluateAgain

SpecJoin == InitJoin /\ [][NextJoin]_vars

\* nothing is grouped before both fetches of the selector have completed, and
\* nothing is combined before both sides have
JoinedBeforeUse ==
    /\ pc = "join" =>
          \A side \in DOMAIN SubExprs(call.query) :
              maybe_done[<<side>>] # None =>
                  \A f \in FetchesOf(call.query, side) : maybe_done[f] # None
    /\ pc = "done" => \A f \in DOMAIN maybe_done : maybe_done[f] # None

\* C15: the fetches of the selectors of both sides of a Binary node are in
\* flight together and complete in any order; a selector's rows are grouped
\* only when both of its fetches have completed, the sides are combined only
\* when both sub-evaluations have; and whatever the order of completion, the
\* result is the one the expression has on the store: the same series in the
\* same order with the same samples.
C15_JoinOrderIndependent ==
    /\ JoinedBeforeUse
    /\ pc = "done" =>
          result = evaluate(call.query, call.query_start, call.query_end,
                            call.step_timestamps)

\* a Binary node whose right side's sum fetch completed first and whose left
\* side's gauge fetch completed after both fetches of the right side; the left
\* side has a gauge and a sum row at the same time in the same series
C15_Witness ==
    /\ pc = "done"
    /\ call.query.kind = "Binary"
    /\ call.query.op = "-"
    /\ call.query.lhs.matchers = <<>>
    /\ failing = {}
    /\ Len(gauge) = 2
    /\ Len(counter) = 2
    /\ completed[1] = <<"rhs", "sum">>
    /\ completed[2] = <<"lhs", "sum">>
    /\ completed[3] = <<"rhs", "gauge">>
    /\ completed[4] = <<"lhs", "gauge">>
    /\ result.ok
    /\ result.series # <<>>
    /\ \E i \in 1..Len(result.series) : result.series[i].samples # <<>>

-----------------------------------------------------------------------------
(* Claims about vector-vector matching *)

CalledVectorVector ==
    /\ CalledBinary
    /\ call.op \in ArithOps \cup CompareOps
    /\ ~is_scalar_result(call.lhs)
    /\ ~is_scalar_result(call.rhs)

\* the labels a series is matched on: those of the on(...) list, or all but
\* those of the ignoring(...) list and __name__, or all but __name__
MatchedOn(labels) ==
    LET listed == {call.modifier.labels[i] : i \in 1..Len(call.modifier.labels)}
        kept(e) == CASE call.modifier.matching = "Include" -> e[1] \in listed
                     [] call.modifier.matching = "Exclude" ->
                            e[1] \notin listed \cup {"__name__"}
                     [] OTHER -> e[1] # "__name__"
    IN  SelectSeq(labels, kept)

\* the value of a series at a step, if it has one
ValueAt(ts, at) ==
    LET here(smp) == Ts(smp) = at
        found == SelectSeq(ts.samples, here)
    IN  IF found = <<>> THEN None ELSE Some(Val(found[1]))

\* the points of the pair: at each step where both series have a value, the
\* outcome of the operation, if any
PairPoints(lts, rts) ==
    Compact([i \in 1..Len(call.step_timestamps) |->
        IF ValueAt(lts, call.step_timestamps[i]) = None
           \/ ValueAt(rts, call.step_timestamps[i]) = None
        THEN None
        ELSE PointAt(call.step_timestamps[i],
                 eval_binary_op(call.op,
                     Unwrap(ValueAt(lts, call.step_timestamps[i])),
                     Unwrap(ValueAt(rts, call.step_timestamps[i])),
                     call.modifier.return_bool))])

\* the pairs <<i, j>> of a left and a right series that are matched on equal
\* labels and have a point, left series first
CombinedPairs ==
    Flatten([i \in 1..Len(call.lhs) |->
        Compact([j \in 1..Len(call.rhs) |->
            IF /\ MatchedOn(call.lhs[i].labels) = MatchedOn(call.rhs[j].labels)
               /\ PairPoints(call.lhs[i], call.rhs[j]) # <<>>
            THEN Some(<<i, j>>)
            ELSE None])])

\* C19: the result of a vector-vector arithmetic or comparison operation has
\* one series for each pair of a left and a right series with equal
\* signatures (the on-labels, or all labels but the ignored ones and __name__,
\* or all but __name__), carrying a point at exactly the steps where both have
\* a value and the comparison, if any, passes; a series without a partner of
\* equal signature contributes nothing.
C19_SignatureMatching ==
    CalledVectorVector =>
        /\ Len(result) = Len(CombinedPairs)
        /\ \A k \in 1..Len(result) :
               result[k].samples =
                   PairPoints(call.lhs[CombinedPairs[k][1]],
                              call.rhs[CombinedPairs[k][2]])

\* m{job="a"} + n{job="a"} combined on all labels but __name__, while the
\* series m{job="b"} of the right side finds no partner
C19_Witness ==
    /\ CalledVectorVector
    /\ call.op = "+"
    /\ call.modifier.matching = "None"
    /\ call.modifier.card = "OneToOne"
    /\ Len(call.lhs) = 1
    /\ Len(call.rhs) = 2
    /\ call.step_timestamps = <<R(10), R(20)>>
    /\ call.lhs[1].labels # call.rhs[1].labels
    /\ Len(call.lhs[1].samples) = 2
    /\ Len(result) = 1
    /\ result[1].samples = << <<R(10), R(2)>> >>

\* a set of label entries with distinct keys as the map in key order
RECURSIVE InKeyOrder(_)
InKeyOrder(entries) ==
    IF entries = {} THEN <<>>
    ELSE LET least == CHOOSE e \in entries :
                          \A f \in entries : e = f \/ StrLess(e[1], f[1])
         IN  <<least>> \o InKeyOrder(entries \ {least})

\* the labels of a series with the named extra labels the other series has,
\* at the other series' values
WithExtra(labels, other) ==
    LET extra == {call.modifier.extra[i] : i \in 1..Len(call.modifier.extra)}
    IN  InKeyOrder(
            {labels[i] : i \in {x \in 1..Len(labels) :
                ~(labels[x][1] \in extra /\ HasKey(other, labels[x][1]))}}
            \cup {other[i] : i \in {x \in 1..Len(other) : other[x][1] \in extra}})

\* the labels C20 gives the series of a pair
LabelsOfPair(lts, rts) ==
    LET listed == {call.modifier.labels[i] : i \in 1..Len(call.modifier.labels)}
        onLabel(e) == e[1] \in listed
        notIgnored(e) == e[1] \notin listed
    IN  CASE call.modifier.card = "ManyToOne" -> WithExtra(lts.labels, rts.labels)
          [] call.modifier.card = "OneToMany" -> WithExtra(rts.labels, lts.labels)
          [] call.modifier.matching = "Include" -> SelectSeq(lts.labels, onLabel)
          [] call.modifier.matching = "Exclude" ->
                 SelectSeq(lts.labels, notIgnored)
          [] OTHER -> lts.labels

\* C20: a vector-vector output series is labelled, one-to-one with on(...),
\* with the on-labels the left series has; one-to-one with ignoring(...), with
\* the left series' labels but the ignored ones; under group_left, with the
\* left series' labels and each named extra label the matched right series
\* has, at the right series' value; under group_right, the mirror image.
C20_OutputLabels ==
    (CalledVectorVector /\ Len(result) = Len(CombinedPairs)) =>
        \A k \in 1..Len(result) :
            result[k].labels =
                LabelsOfPair(call.lhs[CombinedPairs[k][1]],
                             call.rhs[CombinedPairs[k][2]])

\* m{job="a"} - n{job="a"} on(job) group_right(__name__, job): the output has
\* the right series' labels with __name__ copied from the left one
C20_Witness ==
    /\ CalledVectorVector
    /\ call.op = "-"
    /\ call.modifier.card = "OneToMany"
    /\ call.modifier.matching = "Include"
    /\ Len(call.lhs) = 1
    /\ Len(call.rhs) = 1
    /\ call.rhs[1].labels = <<<<"__name__", "n">>, <<"job", "a">>>>
    /\ Len(result) = 1
    /\ result[1].labels = <<<<"__name__", "m">>, <<"job", "a">>>>

\* series i and j of the input, i before j, are of one group and tied: both
\* have samples and equal latest values
Tied(i, j) ==
    /\ i < j
    /\ build_group_key(call.series[i].labels, call.by_labels, call.without)
           = build_group_key(call.series[j].labels, call.by_labels, call.without)
    /\ Ranked(call.series[i])
    /\ Ranked(call.series[j])
    /\ LatestValue(call.series[i]) = LatestValue(call.series[j])

\* of two tied series the earlier one is selected whenever the later one is
EarlierTiedFirst ==
    \A i, j \in 1..Len(call.series) :
        (Tied(i, j) /\ call.series[j] \in SeriesSet(result)) =>
            call.series[i] \in SeriesSet(result)

\* of two tied series the later one is selected whenever the earlier one is
LaterTiedFirst ==
    \A i, j \in 1..Len(call.series) :
        (Tied(i, j) /\ call.series[i] \in SeriesSet(result)) =>
            call.series[j] \in SeriesSet(result)

\* C22: among the series of a group with equal latest values, topk and bottomk
\* both select those earlier in the input before those later in the input.
C22_TiesByInputOrder == CalledTopk => EarlierTiedFirst

\* bottomk does; topk selects the later ones first (where every latest value
\* is a number)
C22_TiesAsSorted ==
    (CalledTopk /\ AllLatestComparable) =>
        IF call.op = "Bottomk" THEN EarlierTiedFirst ELSE LaterTiedFirst

-----------------------------------------------------------------------------
(* Claims about the combining aggregations *)

SeqRange(xs) == {xs[i] : i \in 1..Len(xs)}

\* the value of the sample a series has at a step, if it has one
ValueAtStep(ts, at) ==
    LET here(smp) == Ts(smp) = at
        found == SelectSeq(ts.samples, here)
    IN  IF found = <<>> THEN None ELSE Some(Val(found[1]))

CalledAggregate ==
    /\ pc = "done"
    /\ call.fn = "aggregate_series"
    /\ call.op \notin {"Topk", "Bottomk"}

\* the key of a series: its labels without the listed ones, or restricted to
\* the listed ones, or no label when there is no list
KeyOf(labels) ==
    LET listed == {call.by_labels[i] : i \in 1..Len(call.by_labels)}
        inList(e) == e[1] \in listed
        notInList(e) == e[1] \notin listed
    IN  IF call.without THEN SelectSeq(labels, notInList)
        ELSE IF listed = {} THEN <<>>
        ELSE SelectSeq(labels, inList)

\* the values, in input order, of the members of a group that have a sample
\* at a step
MemberValues(key, at) ==
    LET has(ts) == KeyOf(ts.labels) = key /\ ValueAtStep(ts, at) # None
        with == SelectSeq(call.series, has)
    IN  [i \in 1..Len(with) |-> Unwrap(ValueAtStep(with[i], at))]

\* the reductions, for values that are numbers
Reduction(op, values, param) ==
    LET n == Len(values)
        set == {values[i] : i \in 1..n}
        mean == RDiv(SumSeq(values), R(n))
        sq(i) == RMul(RSub(values[i], mean), RSub(values[i], mean))
        variance == RDiv(SumSeq([i \in 1..n |-> sq(i)]), R(n))
        rank == QuantileRank(IF param = None THEN Rat(1, 2) ELSE Unwrap(param), n)
    IN  CASE op = "Sum" -> SumSeq(values)
          [] op = "Avg" -> mean
          [] op = "Min" -> CHOOSE v \in set : \A w \in set : RLe(v, w)
          [] op = "Max" -> CHOOSE v \in set : \A w \in set : RGe(v, w)
          [] op = "Count" -> R(n)
          [] op = "Stdvar" -> variance
          [] op = "Stddev" -> RSqrt(variance)
          [] op = "Quantile" ->
                 RAdd(KthSmallest(values, RFloor(rank) + 1),
                      RMul(RSub(KthSmallest(values, RCeil(rank) + 1),
                                KthSmallest(values, RFloor(rank) + 1)),
                           RSub(rank, R(RFloor(rank)))))
          [] op = "Group" -> R(1)

\* the points of an output series are those of its group: at each step where
\* a member has a value one point, the reduction when the values are numbers
GroupReduced(ts) ==
    /\ \A j \in 1..Len(ts.samples) :
           /\ \E i \in 1..Len(call.step_timestamps) :
                  call.step_timestamps[i] = Ts(ts.samples[j])
           /\ \A k \in 1..Len(ts.samples) :
                  Ts(ts.samples[k]) = Ts(ts.samples[j]) => k = j
    /\ \A i \in 1..Len(call.step_timestamps) :
           IF MemberValues(ts.labels, call.step_timestamps[i]) = <<>>
           THEN ValueAtStep(ts, call.step_timestamps[i]) = None
           ELSE /\ ValueAtStep(ts, call.step_timestamps[i]) # None
                /\ (/\ call.op # "CountValues"
                    /\ \A v \in SeqRange(MemberValues(ts.labels,
                                             call.step_timestamps[i])) :
                           IsFinite(v))
                   => ValueAtStep(ts, call.step_timestamps[i]) =
                          Some(Reduction(call.op,
                                   MemberValues(ts.labels,
                                                call.step_timestamps[i]),
                                   call.param))

-----------------------------------------------------------------------------
(* Claims about histogram_quantile *)

CalledHistogramQuantile ==
    /\ pc = "done"
    /\ call.fn = "apply_scalar_func"
    /\ call.func = "HistogramQuantile"

HasLabel(ts, name) == \E e \in SeqRange(ts.labels) : e[1] = name

LabelOf(ts, name) ==
    IF HasLabel(ts, name)
    THEN (CHOOSE e \in SeqRange(ts.labels) : e[1] = name)[2]
    ELSE ""

\* the labels of a bucket series without le and __name__
BucketGroup(ts) ==
    LET kept(e) == e[1] \notin {"le", "__name__"}
    IN  SelectSeq(ts.labels, kept)

\* the upper bound of a bucket series; the label "+Inf" is infinity
UpperBound(ts) ==
    IF LabelOf(ts, "le") = "+Inf" THEN PosInf
    ELSE IF LabelOf(ts, "le") = "1" THEN R(1)
    ELSE R(2)

\* the buckets <<le, count>> of a group, the count being the latest value
BucketsOf(group) ==
    {<<UpperBound(ts), LatestValue(ts)>> :
        ts \in {x \in SeqRange(call.series) : BucketGroup(x) = group}}

\* the groups of the input that have a +Inf bucket
GroupsWithInf ==
    {BucketGroup(ts) :
        ts \in {x \in SeqRange(call.series) : LabelOf(x, "le") = "+Inf"}}

TotalOf(group) == (CHOOSE b \in BucketsOf(group) : b[1] = PosInf)[2]

\* the bucket before b in ascending le order, <<0, 0>> before the first
BucketBelow(group, b) ==
    IF \E x \in BucketsOf(group) : RLt(x[1], b[1])
    THEN CHOOSE x \in BucketsOf(group) :
             /\ RLt(x[1], b[1])
             /\ \A y \in BucketsOf(group) : RLt(y[1], b[1]) => RLe(y[1], x[1])
    ELSE <<R(0), R(0)>>

\* linear interpolation in bucket b between the bound below and its own bound;
\* the bound below when the bucket holds nothing
InterpolatedIn(b, below, target) ==
    IF b[2] = below[2] THEN below[1]
    ELSE RAdd(below[1],
              RMul(RSub(b[1], below[1]),
                   RDiv(RSub(target, below[2]), RSub(b[2], below[2]))))

\* the quantile of a group: interpolated in the first bucket, ascending by
\* le, whose count reaches target = phi * total; NaN when none does
QuantileOfGroup(group, target) ==
    LET reaching == {b \in BucketsOf(group) : RGe(b[2], target)}
        first == CHOOSE b \in reaching : \A x \in reaching : RLe(b[1], x[1])
    IN  IF reaching = {} THEN NaN
        ELSE InterpolatedIn(first, BucketBelow(group, first), target)

Phi == IF call.extra_args = <<>> THEN Rat(1, 2) ELSE call.extra_args[1]

-----------------------------------------------------------------------------
(* Claims about extract_lookback *)

\* the range durations of the matrix selectors anywhere in an expression
RECURSIVE MatrixRanges(_)
MatrixRanges(expr) ==
    IF expr.kind = "MatrixSelector" THEN {expr.range}
    ELSE UNION {MatrixRanges(child) : child \in Children(expr)}

GreatestOf(ranges) == CHOOSE r \in ranges : \A x \in ranges : RLe(x, r)

\* C25: the lookback of a range query is the greatest range duration of the
\* matrix selectors anywhere in the expression, and the default of 300
\* seconds when the expression contains no matrix selector.
C25_Lookback ==
    CalledRange =>
        extract_lookback(call.query) =
            IF MatrixRanges(call.query) = {} THEN R(300)
            ELSE GreatestOf(MatrixRanges(call.query))

\* the lookback is never below the range of a matrix selector of the query
C25_LookbackCoversRanges ==
    CalledRange =>
        \A r \in MatrixRanges(call.query) : RLe(r, extract_lookback(call.query))

\* an expression made of matrix selectors, aggregations, operators and
\* calls with arguments only, every leaf a matrix selector
RECURSIVE OnlyMatrixLeaves(_)
OnlyMatrixLeaves(expr) ==
    \/ expr.kind = "MatrixSelector"
    \/ /\ expr.kind \in {"Call", "Binary", "Unary", "Paren"}
       /\ Children(expr) # {}
       /\ \A child \in Children(expr) : OnlyMatrixLeaves(child)
    \/ /\ expr.kind = "Aggregate"
       /\ OnlyMatrixLeaves(expr.expr)

\* where every leaf is a matrix selector the lookback is the greatest range
C25_LookbackOfMatrixLeaves ==
    (CalledRange /\ OnlyMatrixLeaves(call.query)) =>
        extract_lookback(call.query) = GreatestOf(MatrixRanges(call.query))

-----------------------------------------------------------------------------
(* Claims about vector-scalar arithmetic *)

CalledVectorScalar ==
    /\ CalledBinary
    /\ call.op \in ArithOps
    /\ is_scalar_result(call.lhs) # is_scalar_result(call.rhs)

ScalarOnLeft == is_scalar_result(call.lhs)

VectorSide == IF ScalarOnLeft THEN call.rhs ELSE call.lhs

ScalarSide == IF ScalarOnLeft THEN call.lhs[1] ELSE call.rhs[1]

\* the scalar has a value at a step of the grid
ScalarHasValueAt(at) ==
    /\ at \in SeqRange(call.step_timestamps)
    /\ ValueAt(ScalarSide, at) # None

\* the scalar's value at a step; NaN where it has none
ScalarValueAt(at) ==
    IF ScalarHasValueAt(at) THEN Unwrap(ValueAt(ScalarSide, at)) ELSE NaN

\* lhs op rhs with the operands on the sides they have in the expression
InSourceOrder(v, s) ==
    IF ScalarOnLeft THEN Unwrap(eval_binary_op(call.op, s, v, FALSE))
    ELSE Unwrap(eval_binary_op(call.op, v, s, FALSE))

\* C26 as stated: vector-scalar arithmetic returns one series per series of
\* the vector, labels unchanged, with exactly one point per sample of that
\* series at the same timestamp, whose value is lhs op rhs in source order
\* with the scalar's value at the sample's step.
C26_VectorScalar ==
    CalledVectorScalar =>
        /\ Len(result) = Len(VectorSide)
        /\ \A i \in 1..Len(result) :
               /\ result[i].labels = VectorSide[i].labels
               /\ Len(result[i].samples) = Len(VectorSide[i].samples)
               /\ \A j \in 1..Len(result[i].samples) :
                      /\ Ts(result[i].samples[j]) = Ts(VectorSide[i].samples[j])
                      /\ ScalarHasValueAt(Ts(VectorSide[i].samples[j])) =>
                             Val(result[i].samples[j]) =
                                 InSourceOrder(Val(VectorSide[i].samples[j]),
                                     ScalarValueAt(Ts(VectorSide[i].samples[j])))

\* C26 amended: vector-scalar arithmetic returns one series per series of the
\* vector that has at least one sample, in the vector's order and with labels
\* unchanged; a series without samples is dropped. Each returned series has
\* exactly one point per sample at the same timestamp, whose value is
\* lhs op rhs in source order with the scalar's value at the sample's step,
\* and with NaN for the scalar where it has no value at that step.
C26_VectorScalarWithSamples ==
    CalledVectorScalar =>
        LET hasSamples(ts) == ts.samples # <<>>
            kept == SelectSeq(VectorSide, hasSamples)
        IN  result =
                [i \in 1..Len(kept) |->
                    TimeSeries(kept[i].labels,
                        [j \in 1..Len(kept[i].samples) |->
                            <<Ts(kept[i].samples[j]),
                              InSourceOrder(Val(kept[i].samples[j]),
                                  ScalarValueAt(Ts(kept[i].samples[j])))>>])]

\* 3 - m with a series of m without samples beside m{job="a"} = -2 at 20:
\* one series, job="a", with 3 - (-2) = 5
C26_Witness ==
    /\ CalledVectorScalar
    /\ call.op = "-"
    /\ ScalarOnLeft
    /\ Len(call.rhs) = 2
    /\ call.rhs[1].samples = <<>>
    /\ call.step_timestamps = <<R(10), R(20)>>
    /\ Len(result) = 1
    /\ result[1].labels = call.rhs[2].labels
    /\ result[1].samples = << <<R(20), R(5)>> >>

-----------------------------------------------------------------------------
(* Claims about the series of a selector *)

\* the outputs of the selectors that have been resolved so far
ResolvedSelectors ==
    IF pc \notin {"join", "done"} THEN {}
    ELSE {Unwrap(maybe_done[<<side>>]).series :
             side \in {x \in DOMAIN SubExprs(call.query) :
                          /\ IsSelector(SubExprs(call.query)[x])
                          /\ <<x>> \in DOMAIN maybe_done
                          /\ maybe_done[<<x>>] # None}}

DistinctLabelSets(series) ==
    \A i, j \in 1..Len(series) : series[i].labels = series[j].labels => i = j

\* every sample is later than the one before it
StrictlyAscending(samples) ==
    \A i \in 1..Len(samples) - 1 : RLt(Ts(samples[i]), Ts(samples[i + 1]))

NotDescending(samples) ==
    \A i \in 1..Len(samples) - 1 : RLe(Ts(samples[i]), Ts(samples[i + 1]))

\* C27: resolving a selector yields exactly one series per distinct label set,
\* its samples ascending by timestamp with no two samples at the same
\* timestamp, also when the gauge and the sum table both return a row of the
\* same label set and timestamp.
C27_SelectorSeries ==
    \A series \in ResolvedSelectors :
        /\ DistinctLabelSets(series)
        /\ \A i \in 1..Len(series) : StrictlyAscending(series[i].samples)

\* one series per label set, and no sample earlier than the one before it
C27_OneSeriesPerLabelSet ==
    \A series \in ResolvedSelectors :
        /\ DistinctLabelSets(series)
        /\ \A i \in 1..Len(series) : NotDescending(series[i].samples)

\* a vector selector, which is aligned to the steps, has one sample per step
C27_AlignedSelectorSeries ==
    pc \in {"join", "done"} =>
        \A side \in DOMAIN SubExprs(call.query) :
            (/\ SubExprs(call.query)[side].kind = "VectorSelector"
             /\ maybe_done[<<side>>] # None) =>
                \A i \in 1..Len(Unwrap(maybe_done[<<side>>]).series) :
                    StrictlyAscending(
                        Unwrap(maybe_done[<<side>>]).series[i].samples)

-----------------------------------------------------------------------------
(* Claims about the label sets of a one-to-one result *)

CalledOneToOne ==
    /\ CalledVectorVector
    /\ call.modifier.card = "OneToOne"
    /\ DistinctLabelSets(call.lhs)
    /\ DistinctLabelSets(call.rhs)

\* no two series of one side have the same signature
DistinctSignatures(series) ==
    \A i, j \in 1..Len(series) :
        Signature(series[i]) = Signature(series[j]) => i = j

\* C28: the result of a one-to-one vector-vector operation on two inputs of
\* pairwise distinct label sets has no two series with the same label set,
\* with on(...), with ignoring(...) and without a modifier.
C28_DistinctOutputLabels ==
    CalledOneToOne => DistinctLabelSets(result)

\* the label sets of the result are distinct where no two series of a side
\* share a signature and the signature is the whole of the output labels
C28_DistinctForDistinctSignatures ==
    (/\ CalledOneToOne
     /\ call.modifier.matching = "Include"
     /\ DistinctSignatures(call.lhs)
     /\ DistinctSignatures(call.rhs)) => DistinctLabelSets(result)

-----------------------------------------------------------------------------
(* Claims about histogram_quantile in a range query *)

\* a range query histogram_quantile(phi, selector) that returned series
CalledRangeHistogramQuantile ==
    /\ CalledRange
    /\ call.query.kind = "Call"
    /\ call.query.func = "histogram_quantile"
    /\ Len(call.query.args) = 2
    /\ result.ok

\* the bucket series the quantile is taken of, aligned to the steps
BucketSeriesOfCall ==
    evaluate(call.query.args[2],
             RSub(call.start, extract_lookback(call.query)), call.end,
             StepsOfCall).series

\* the bucket series with the sample each has at one step, without the
\* series that have none there
AtStepOnly(series, at) ==
    LET here(smp) == Ts(smp) = at
        sliced == [i \in 1..Len(series) |->
                      TimeSeries(series[i].labels,
                                 SelectSeq(series[i].samples, here))]
        hasSample(ts) == ts.samples # <<>>
    IN  SelectSeq(sliced, hasSample)

\* the quantile of the bucket counts of one step: per group a series with
\* the point of that step
QuantileAtStep(at) ==
    compute_histogram_quantile(Unwrap(extract_number_literal(call.query.args[1])),
                               AtStepOnly(BucketSeriesOfCall, at))

\* C29: in a range query histogram_quantile has, per bucket group, a point at
\* every step of the grid at which the bucket series have values, computed
\* from the bucket counts at that step.
C29_QuantilePerStep ==
    CalledRangeHistogramQuantile =>
        \A s \in 1..Len(StepsOfCall) :
            \A k \in 1..Len(QuantileAtStep(StepsOfCall[s])) :
                \E i \in 1..Len(result.series) :
                    /\ result.series[i].labels =
                           QuantileAtStep(StepsOfCall[s])[k].labels
                    /\ QuantileAtStep(StepsOfCall[s])[k].samples[1]
                           \in SeqRange(result.series[i].samples)

\* every series histogram_quantile returns in a range query has one point,
\* at the last timestamp of the first bucket series
C29_OnePointPerRange ==
    CalledRangeHistogramQuantile =>
        \A i \in 1..Len(result.series) :
            /\ Len(result.series[i].samples) = 1
            /\ Ts(result.series[i].samples[1]) =
                   Ts(BucketSeriesOfCall[1].samples[
                          Len(BucketSeriesOfCall[1].samples)])

-----------------------------------------------------------------------------
(* Claims about panics *)

\* C30: no step of an evaluation panics; in particular apply_scalar_op with
\* Clamp returns normally for every pair of bounds, min > max included.
C30_NoPanic == pc # "panicked"

\* apply_scalar_func panics only in clamp with min > max on a vector that has
\* a sample; with min <= max every sample is clamped into [min, max]
C30_PanicOnlyInClamp ==
    /\ pc = "panicked" =>
          /\ call.func = "Clamp"
          /\ Len(call.extra_args) = 2
          /\ RGt(call.extra_args[1], call.extra_args[2])
    /\ (/\ pc = "done"
        /\ call.fn = "apply_scalar_func"
        /\ call.func = "Clamp"
        /\ Len(call.extra_args) = 2) =>
          /\ RLe(call.extra_args[1], call.extra_args[2])
             \/ \A i \in 1..Len(call.series) : call.series[i].samples = <<>>
          /\ \A i \in 1..Len(result) :
                 \A j \in 1..Len(result[i].samples) :
                     \/ IsNaN(Val(call.series[i].samples[j]))
                     \/ /\ RGe(Val(result[i].samples[j]), call.extra_args[1])
                        /\ RLe(Val(result[i].samples[j]), call.extra_args[2])

=============================================================================
